---- MODULE Spec2Model ----
(***************************************************************************)
(* Model of the intrusion-detection pipeline's core:                       *)
(*   src/src/transform.py         LogTransformer                           *)
(*   src/src/detect_anomalies.py  IntrusionDetector                        *)
(*                                                                         *)
(* Text is a sequence of one-character strings, so that regular-expression *)
(* matching, str.strip, str.startswith, str.split and int() are computed   *)
(* character by character as the Python code computes them.                *)
(***************************************************************************)
EXTENDS Integers, Sequences, FiniteSets, TLC

VARIABLES
    year,                   \* LogTransformer.year
    parsed_count,           \* LogTransformer.parsed_count
    failed_count,           \* LogTransformer.failed_count
    failed_samples,         \* LogTransformer.failed_samples
    brute_force_threshold,  \* IntrusionDetector.brute_force_threshold
    time_window_minutes,    \* IntrusionDetector.time_window_minutes
    anomalies,              \* IntrusionDetector.anomalies
    op,                     \* name of the last method called ("init": none yet)
    arg,                    \* the argument that call received
    ret,                    \* what that call returned (or the exception it raised)
    metrics,                \* IntrusionDetectionPipeline.metrics
    files,                  \* the files in DataLoader.output_directory
    hist                    \* history: what the caller supplied, for stating the claims

vars == <<year, parsed_count, failed_count, failed_samples,
          brute_force_threshold, time_window_minutes, anomalies,
          metrics, files, op, arg, ret, hist>>

transformer_vars == <<year, parsed_count, failed_count, failed_samples>>
detector_vars == <<brute_force_threshold, time_window_minutes, anomalies>>
pipeline_vars == <<metrics, files>>

(***************************************************************************)
(* Characters and Python string primitives                                 *)
(***************************************************************************)
DigitChars == <<"0", "1", "2", "3", "4", "5", "6", "7", "8", "9">>

DigitSet == {DigitChars[i] : i \in 1..10}

LowerSet == {"a", "b", "c", "d", "e", "f", "g", "h", "i", "j", "k", "l", "m",
             "n", "o", "p", "q", "r", "s", "t", "u", "v", "w", "x", "y", "z"}

UpperSet == {"A", "B", "C", "D", "E", "F", "G", "H", "I", "J", "K", "L", "M",
             "N", "O", "P", "Q", "R", "S", "T", "U", "V", "W", "X", "Y", "Z"}

\* regex \s, and the characters str.strip() removes
SpaceSet == {" ", "\t", "\n", "\r"}

\* regex \w
WordSet == LowerSet \cup UpperSet \cup DigitSet \cup {"_"}

\* regex \d
DSet == DigitSet

\* regex [\w\.\-_]
UserSet == WordSet \cup {".", "-"}

\* regex [\d\.]
IpSet == DigitSet \cup {"."}

DigitVal(c) == (CHOOSE i \in 1..10 : DigitChars[i] = c) - 1

\* str.startswith(prefix)
StartsWith(s, prefix) ==
    /\ Len(s) >= Len(prefix)
    /\ SubSeq(s, 1, Len(prefix)) = prefix

Min(a, b) == IF a <= b THEN a ELSE b

\* str.strip(): drop leading and trailing whitespace
Strip(s) ==
    LET keep == {i \in 1..Len(s) : s[i] \notin SpaceSet}
    IN  IF keep = {} THEN <<>>
        ELSE LET lo == CHOOSE i \in keep : \A j \in keep : i <= j
                 hi == CHOOSE i \in keep : \A j \in keep : j <= i
             IN  SubSeq(s, lo, hi)

\* str.split('.'): the pieces between the dots, empty pieces included
RECURSIVE SplitDot(_)
SplitDot(s) ==
    LET dots == {i \in 1..Len(s) : s[i] = "."}
    IN  IF dots = {} THEN <<s>>
        ELSE LET d == CHOOSE i \in dots : \A j \in dots : i <= j
             IN  <<SubSeq(s, 1, d - 1)>> \o SplitDot(SubSeq(s, d + 1, Len(s)))

RECURSIVE DigitsValue(_)
DigitsValue(s) ==
    IF s = <<>> THEN 0
    ELSE 10 * DigitsValue(SubSeq(s, 1, Len(s) - 1)) + DigitVal(s[Len(s)])

\* int(text): surrounding whitespace and one sign are accepted, then decimal
\* digits; anything else raises ValueError.  (Digit-group underscores, which
\* int() also accepts, are outside the model's alphabet.)
PyInt(text) ==
    LET t == Strip(text)
        signed == t # <<>> /\ t[1] \in {"+", "-"}
        body == IF signed THEN SubSeq(t, 2, Len(t)) ELSE t
    IN  IF body = <<>> \/ \E i \in 1..Len(body) : body[i] \notin DigitSet
        THEN [exc |-> "ValueError"]
        ELSE [exc |-> "none",
              value |-> IF signed /\ t[1] = "-" THEN 0 - DigitsValue(body)
                        ELSE DigitsValue(body)]

\* str(n) for a natural number n
RECURSIVE Dec(_)
Dec(n) ==
    IF n < 10 THEN <<DigitChars[n + 1]>>
    ELSE Append(Dec(n \div 10), DigitChars[(n % 10) + 1])

(***************************************************************************)
(* Log lines.  A line is rendered from its fields, in the layout of        *)
(* generate_logs.py and of the test lines of transform.py:156-161:         *)
(*   <prefix><Mon><pad><DD> <HH>:<MM>:<SS> <host> sshd[<pid>]: <status>    *)
(*   password for <user> from <ip> <portkw> <port><tail>                   *)
(***************************************************************************)
Zeros(n) == [i \in 1..n |-> "0"]

Render(f) ==
    f.prefix \o f.month \o f.pad \o f.day \o <<" ">>
    \o f.hh \o <<":">> \o f.mm \o <<":">> \o f.ss \o <<" ">>
    \o f.host \o <<" ", "s", "s", "h", "d", "[">> \o Zeros(f.pidpad) \o Dec(f.pid) \o <<"]", ":", " ">>
    \o f.status \o <<" ", "p", "a", "s", "s", "w", "o", "r", "d", " ", "f", "o", "r", " ">> \o f.user \o <<" ", "f", "r", "o", "m", " ">>
    \o f.ip \o <<" ">> \o f.portkw \o <<" ">>
    \o Zeros(f.portpad) \o Dec(f.port) \o f.tail

\* the first test line of transform.py:157
BaseFields ==
    [prefix |-> <<>>, month |-> <<"J", "a", "n">>, pad |-> <<" ", " ">>, day |-> <<"1">>,
     hh |-> <<"1", "0">>, mm |-> <<"2", "3">>, ss |-> <<"4", "5">>,
     host |-> <<"s", "e", "r", "v", "e", "r">>, pid |-> 1234, pidpad |-> 0,
     status |-> <<"F", "a", "i", "l", "e", "d">>, user |-> <<"a", "d", "m", "i", "n">>,
     ip |-> <<"4", "5", ".", "1", "4", "2", ".", "2", "1", "2", ".", "6", "1">>, portkw |-> <<"p", "o", "r", "t">>,
     port |-> 54321, portpad |-> 0, tail |-> <<" ", "s", "s", "h", "2">>]

\* the date and time parts tried with every variant of the other fields
MonthTexts == {<<"J", "a", "n">>, <<"F", "e", "b">>, <<"A", "p", "r">>, <<"f", "e", "b">>, <<"F", "o", "o">>}

DayTexts == {<<"1">>, <<"0", "7">>, <<"2", "8">>, <<"2", "9">>, <<"3", "0">>, <<"3", "1">>, <<"3", "2">>, <<"0">>, <<"0", "0", "7">>}

TimeTexts == {<<<<"1", "0">>, <<"2", "3">>, <<"4", "5">>>>, <<<<"1">>, <<"2">>, <<"3">>>>,
              <<<<"2", "4">>, <<"0", "0">>, <<"0", "0">>>>, <<<<"2", "3">>, <<"5", "9">>, <<"6", "0">>>>}

\* variants of the remaining fields: the base line, lines that still hold
\* the pattern, and lines that do not
RestVariants ==
    { BaseFields,
      [BaseFields EXCEPT !.status = <<"A", "c", "c", "e", "p", "t", "e", "d">>, !.user = <<"j", "o", "h", "n", ".", "d", "o", "e">>,
                         !.ip = <<"1", "9", "2", ".", "1", "6", "8", ".", "1", ".", "1", "0">>, !.pad = <<" ">>],
      [BaseFields EXCEPT !.user = <<"t", "e", "s", "t", "_", "u", "s", "e", "r", "-", "1">>, !.ip = <<"1", "7", "2", ".", "2", "0", ".", "0", ".", "5">>,
                         !.tail = <<" ", "s", "s", "h", "2", "\n">>],
      [BaseFields EXCEPT !.prefix = <<"<", "3", "8", ">", " ">>, !.tail = <<>>],
      [BaseFields EXCEPT !.pidpad = 2, !.pid = 7, !.portpad = 1, !.port = 22],
      [BaseFields EXCEPT !.ip = <<"1", "0", ".", ".", "5">>, !.tail = <<"7", " ", "s", "s", "h", "2">>],
      [BaseFields EXCEPT !.pad = <<"\t">>, !.prefix = <<" ", " ">>],
      [BaseFields EXCEPT !.status = <<"D", "e", "n", "i", "e", "d">>],
      [BaseFields EXCEPT !.user = <<"a", "@", "b">>],
      [BaseFields EXCEPT !.host = <<"w", "e", "b", "-", "0", "1">>],
      [BaseFields EXCEPT !.portkw = <<"p", "r", "t">>],
      [BaseFields EXCEPT !.ip = <<"f", "e", "8", "0", ":", ":", "1">>],
      [BaseFields EXCEPT !.pad = <<>>] }

ParseInputs ==
    { [r EXCEPT !.month = m, !.day = d, !.hh = t[1], !.mm = t[2], !.ss = t[3]] :
        r \in RestVariants, m \in MonthTexts, d \in DayTexts, t \in TimeTexts }

\* the years a LogTransformer is constructed with, and the current year
NoYear == [given |-> FALSE]

YearArgs == {NoYear, [given |-> TRUE, value |-> 2023],
             [given |-> TRUE, value |-> 2024]}

NowYears == {2026}

\* the lines of the call sequences of Spec and SpecSamples
GoodFailedLine == Render(BaseFields)

GoodAcceptedLine ==
    Render([BaseFields EXCEPT !.status = <<"A", "c", "c", "e", "p", "t", "e", "d">>, !.user = <<"j", "o", "h", "n", ".", "d", "o", "e">>,
                              !.ip = <<"1", "9", "2", ".", "1", "6", "8", ".", "1", ".", "1", "0">>, !.day = <<"1", "4">>,
                              !.pad = <<" ">>, !.tail = <<" ", "s", "s", "h", "2", "\n">>])

\* the malformed test line of transform.py:160, as readlines() returns it
NoMatchLine == <<"M", "A", "L", "F", "O", "R", "M", "E", "D", " ", "L", "O", "G", " ", "E", "N", "T", "R", "Y", "\n">>

BadDateLine == Render([BaseFields EXCEPT !.month = <<"F", "e", "b">>, !.day = <<"3", "0">>])

SampleLines == {GoodFailedLine, GoodAcceptedLine, NoMatchLine, BadDateLine}

(***************************************************************************)
(* LogTransformer.LOG_PATTERN (transform.py:21-25) and re.search           *)
(*                                                                         *)
(* The pattern is a concatenation of literals and one-or-more character    *)
(* classes in which no class is followed by a character it contains, so    *)
(* the greedy match at a position succeeds iff the longest-run match       *)
(* below does; search() takes the leftmost position that matches.          *)
(***************************************************************************)
Plus(chars) == [kind |-> "plus", chars |-> chars]

Lit(alts) == [kind |-> "lit", alts |-> alts]

LOG_PATTERN ==
    << Plus(WordSet),                       \*  1  (\w+)           group 1
       Plus(SpaceSet),                      \*  2  \s+
       Plus(DSet),                          \*  3  (\d+)           group 2
       Plus(SpaceSet),                      \*  4  \s+
       Plus(DSet),                          \*  5  (\d+            group 3
       Lit(<< <<":">> >>),                  \*  6  :
       Plus(DSet),                          \*  7  \d+
       Lit(<< <<":">> >>),                  \*  8  :
       Plus(DSet),                          \*  9  \d+)
       Plus(SpaceSet),                      \* 10  \s+
       Plus(WordSet),                       \* 11  \w+
       Plus(SpaceSet),                      \* 12  \s+
       Lit(<< <<"s", "s", "h", "d", "[">> >>),   \* 13  sshd\[
       Plus(DSet),                          \* 14  (\d+)           group 4
       Lit(<< <<"]", ":">> >>),             \* 15  \]:
       Plus(SpaceSet),                      \* 16  \s+
       Lit(<< <<"A", "c", "c", "e", "p", "t", "e", "d">>,
              <<"F", "a", "i", "l", "e", "d">> >>),  \* 17  (Accepted|Failed) group 5
       Plus(SpaceSet),                      \* 18  \s+
       Lit(<< <<"p", "a", "s", "s", "w", "o", "r", "d">> >>),               \* 19  password
       Plus(SpaceSet),                      \* 20  \s+
       Lit(<< <<"f", "o", "r">> >>),                    \* 21  for
       Plus(SpaceSet),                      \* 22  \s+
       Plus(UserSet),                       \* 23  ([\w\.\-_]+)    group 6
       Plus(SpaceSet),                      \* 24  \s+
       Lit(<< <<"f", "r", "o", "m">> >>),                   \* 25  from
       Plus(SpaceSet),                      \* 26  \s+
       Plus(IpSet),                         \* 27  ([\d\.]+)       group 7
       Plus(SpaceSet),                      \* 28  \s+
       Lit(<< <<"p", "o", "r", "t">> >>),                   \* 29  port
       Plus(SpaceSet),                      \* 30  \s+
       Plus(DSet) >>                        \* 31  (\d+)           group 8

\* first and last pattern element of each capture group
GroupSpan == << <<1, 1>>, <<3, 3>>, <<5, 9>>, <<14, 14>>,
                <<17, 17>>, <<23, 23>>, <<27, 27>>, <<31, 31>> >>

\* end (exclusive) of the longest run of characters of `chars` from p
RECURSIVE RunEnd(_, _, _)
RunEnd(s, p, chars) ==
    IF p > Len(s) \/ s[p] \notin chars THEN p
    ELSE RunEnd(s, p + 1, chars)

\* where pattern element e ends when matched at p, 0 when it does not match
ElemEnd(s, p, e) ==
    IF e.kind = "plus"
    THEN LET q == RunEnd(s, p, e.chars) IN IF q = p THEN 0 ELSE q
    ELSE LET hits == {i \in 1..Len(e.alts) :
                        /\ p + Len(e.alts[i]) - 1 <= Len(s)
                        /\ SubSeq(s, p, p + Len(e.alts[i]) - 1) = e.alts[i]}
         IN  IF hits = {} THEN 0
             ELSE p + Len(e.alts[CHOOSE i \in hits : \A j \in hits : i <= j])

\* match of pattern element k at p: where it starts and where it ends
MatchSpan(p, q) ==
    IF q = 0 THEN [ok |-> FALSE] ELSE [ok |-> TRUE, pos |-> <<p>>, end |-> q]

MatchOne(s, p, k) == MatchSpan(p, ElemEnd(s, p, LOG_PATTERN[k]))

\* a match of elements lo..mid followed by a match of elements mid+1..hi
MatchJoin(left, right) ==
    IF ~right.ok THEN right
    ELSE [ok |-> TRUE, pos |-> left.pos \o right.pos, end |-> right.end]

\* match of the pattern elements lo..hi one after the other from p; pos[i]
\* is where element lo+i-1 starts.  No element can give back characters to
\* the next one (no class is followed by a character it holds), so the
\* greedy match of each element is the only one.
RECURSIVE MatchRange(_, _, _, _)
RECURSIVE MatchRest(_, _, _, _)
MatchRange(s, p, lo, hi) ==
    IF lo = hi THEN MatchOne(s, p, lo)
    ELSE MatchRest(s, MatchRange(s, p, lo, (lo + hi) \div 2),
                   (lo + hi) \div 2 + 1, hi)

MatchRest(s, left, lo, hi) ==
    IF ~left.ok THEN left
    ELSE MatchJoin(left, MatchRange(s, left.end, lo, hi))

\* match of the whole pattern at p; pos[k] is where element k starts and
\* pos[Len(LOG_PATTERN) + 1] where the match ends
MatchEnd(m) ==
    IF ~m.ok THEN m ELSE [ok |-> TRUE, pos |-> Append(m.pos, m.end)]

MatchFrom(s, p) == MatchEnd(MatchRange(s, p, 1, Len(LOG_PATTERN)))

\* the leftmost position of s where the pattern matches
SearchAt(s, starts) ==
    IF starts = {} THEN [ok |-> FALSE]
    ELSE MatchFrom(s, CHOOSE p \in starts : \A q \in starts : p <= q)

SearchText(s) == SearchAt(s, {p \in 1..Len(s) : MatchFrom(s, p).ok})

\* the matches of the lines of SampleLines, which TLC then computes once
SearchOfSample == [s \in SampleLines |-> SearchText(s)]

\* LOG_PATTERN.search(log_line)
Search(s) == IF s \in SampleLines THEN SearchOfSample[s] ELSE SearchText(s)

\* match.groups()[g - 1]
Group(s, m, g) ==
    SubSeq(s, m.pos[GroupSpan[g][1]], m.pos[GroupSpan[g][2] + 1] - 1)

(***************************************************************************)
(* datetime.strptime(f"{year} {month} {day} {time}", "%Y %b %d %H:%M:%S")  *)
(* (transform.py:58-59).  The month, day and time texts come from groups   *)
(* 1-3, so they hold no whitespace and each directive has to consume its   *)
(* text whole: %Y four digits, %b an abbreviated month name in any case,   *)
(* %d 1-31 with at most one leading zero, %H 0-23, %M 0-59, %S 0-61, each  *)
(* of at most two digits.  The datetime is then built, which raises        *)
(* ValueError for a day the month does not have or a second above 59.      *)
(***************************************************************************)
LowerSeq == <<"a", "b", "c", "d", "e", "f", "g", "h", "i", "j", "k", "l", "m", "n", "o", "p", "q", "r", "s", "t", "u", "v", "w", "x", "y", "z">>

UpperSeq == <<"A", "B", "C", "D", "E", "F", "G", "H", "I", "J", "K", "L", "M", "N", "O", "P", "Q", "R", "S", "T", "U", "V", "W", "X", "Y", "Z">>

ToLowerChar(c) ==
    IF c \in UpperSet
    THEN LowerSeq[CHOOSE i \in 1..26 : UpperSeq[i] = c]
    ELSE c

ToLower(s) == [i \in 1..Len(s) |-> ToLowerChar(s[i])]

MonthAbbr == << <<"j", "a", "n">>, <<"f", "e", "b">>, <<"m", "a", "r">>,
               <<"a", "p", "r">>, <<"m", "a", "y">>, <<"j", "u", "n">>,
               <<"j", "u", "l">>, <<"a", "u", "g">>, <<"s", "e", "p">>,
               <<"o", "c", "t">>, <<"n", "o", "v">>, <<"d", "e", "c">> >>

IsLeap(y) == (y % 4 = 0 /\ y % 100 # 0) \/ y % 400 = 0

DaysInMonth(y, m) ==
    IF m = 2 THEN (IF IsLeap(y) THEN 29 ELSE 28)
    ELSE IF m \in {4, 6, 9, 11} THEN 30 ELSE 31

\* a one- or two-digit decimal field with value in lo..hi
FieldOk(t, lo, hi) ==
    /\ Len(t) \in {1, 2}
    /\ \A i \in 1..Len(t) : t[i] \in DigitSet
    /\ DigitsValue(t) \in lo..hi

Strptime(y, month, day, time) ==
    LET ytext == IF y >= 0 THEN Dec(y) ELSE <<"-">> \o Dec(0 - y)
        mset == {i \in 1..12 : MonthAbbr[i] = ToLower(month)}
        hms == SplitDot([i \in 1..Len(time) |->
                            IF time[i] = ":" THEN "." ELSE time[i]])
        fmt == /\ Len(ytext) = 4
               /\ ytext[1] \in DigitSet
               /\ mset # {}
               /\ FieldOk(day, 1, 31)
               /\ Len(hms) = 3
               /\ FieldOk(hms[1], 0, 23)
               /\ FieldOk(hms[2], 0, 59)
               /\ FieldOk(hms[3], 0, 61)
    IN  IF ~fmt
        THEN [exc |-> "ValueError", msg |-> "does not match format"]
        ELSE LET mo == CHOOSE i \in mset : TRUE
                 d == DigitsValue(day)
                 sec == DigitsValue(hms[3])
             IN  IF d > DaysInMonth(y, mo)
                 THEN [exc |-> "ValueError",
                       msg |-> "day is out of range for month"]
                 ELSE IF sec > 59
                 THEN [exc |-> "ValueError",
                       msg |-> "second must be in 0..59"]
                 ELSE [exc |-> "none",
                       value |-> [year |-> y, month |-> mo, day |-> d,
                                  hour |-> DigitsValue(hms[1]),
                                  minute |-> DigitsValue(hms[2]),
                                  second |-> sec]]

(***************************************************************************)
(* LogTransformer (transform.py:17-152)                                    *)
(***************************************************************************)
\* the bound on stored failure samples, transform.py:50 and :70
SampleLimit == 5

\* __init__: self.year = year or datetime.now().year.  The argument is
\* [given |-> FALSE] for None; None and 0 are both falsy.
InitYear(year_arg, now_year) ==
    IF year_arg.given /\ year_arg.value # 0 THEN year_arg.value ELSE now_year

\* mutant: the handler of parse_log_line catches AttributeError only
ParseCaughtAttributeErrorOnly(exc) == exc \in {"AttributeError"}

\* the exceptions the handler of parse_log_line catches (transform.py:69)
ParseCaught(exc) == exc \in {"ValueError", "AttributeError"}

\* mutant: the pid group is stored as the port and the port group as the pid
ParsedDictSwapped(timestamp, status, username, ip, port, pid) ==
    LET p == PyInt(port)
        q == PyInt(pid)
    IN  IF p.exc # "none" THEN [kind |-> "raise", exc |-> p.exc, msg |-> "int"]
        ELSE IF q.exc # "none"
        THEN [kind |-> "raise", exc |-> q.exc, msg |-> "int"]
        ELSE [kind |-> "dict",
              timestamp |-> timestamp,
              status |-> status,
              username |-> username,
              source_ip |-> ip,
              port |-> q.value,
              pid |-> p.value]

\* the dict built at transform.py:61-68; int() of port, then of pid
ParsedDict(timestamp, status, username, ip, port, pid) ==
    LET p == PyInt(port)
        q == PyInt(pid)
    IN  IF p.exc # "none" THEN [kind |-> "raise", exc |-> p.exc, msg |-> "int"]
        ELSE IF q.exc # "none"
        THEN [kind |-> "raise", exc |-> q.exc, msg |-> "int"]
        ELSE [kind |-> "dict",
              timestamp |-> timestamp,
              status |-> status,
              username |-> username,
              source_ip |-> ip,
              port |-> p.value,
              pid |-> q.value]

\* transform.py:61-68 once strptime has answered with ts
ParseBuild(ts, pid, status, username, ip, port) ==
    IF ts.exc # "none"
    THEN [kind |-> "raise", exc |-> ts.exc, msg |-> ts.msg]
    ELSE ParsedDict(ts.value, status, username, ip, port, pid)

\* the try block, transform.py:56-68
ParseTry(yr, month, day, time, pid, status, username, ip, port) ==
    ParseBuild(Strptime(yr, month, day, time), pid, status, username, ip, port)

\* the except clause, transform.py:69-72, on the outcome r of the try block
ParseExcept(fcount, samples, log_line, r) ==
    IF r.kind = "raise" /\ ParseCaught(r.exc)
    THEN [ret |-> [kind |-> "None"],
          failed_samples |->
              IF fcount < SampleLimit
              THEN Append(samples, [text |-> Strip(log_line),
                                    error |-> r.msg])
              ELSE samples]
    ELSE [ret |-> r, failed_samples |-> samples]

\* transform.py:49-72 on the result match of LOG_PATTERN.search(log_line)
ParseMatch(yr, fcount, samples, log_line, match) ==
    IF ~match.ok
    THEN [ret |-> [kind |-> "None"],
          failed_samples |->
              IF fcount < SampleLimit
              THEN Append(samples, [text |-> Strip(log_line),
                                    error |-> "none"])
              ELSE samples]
    ELSE ParseExcept(fcount, samples, log_line,
                     ParseTry(yr,
                              Group(log_line, match, 1),
                              Group(log_line, match, 2),
                              Group(log_line, match, 3),
                              Group(log_line, match, 4),
                              Group(log_line, match, 5),
                              Group(log_line, match, 6),
                              Group(log_line, match, 7),
                              Group(log_line, match, 8)))

\* parse_log_line(log_line): the value returned (or the exception raised)
\* and the new failed_samples
parse_log_line(yr, fcount, samples, log_line) ==
    ParseMatch(yr, fcount, samples, log_line, Search(log_line))

\* mutant: the upper end of the 172.16.0.0/12 range is excluded
SecondOctetCheckBelow31(ip) ==
    LET parts == SplitDot(ip)
    IN  IF Len(parts) < 2 THEN [kind |-> "raise", exc |-> "IndexError"]
        ELSE LET second_octet == PyInt(parts[2])
             IN  IF second_octet.exc # "none"
                 THEN [kind |-> "raise", exc |-> second_octet.exc]
                 ELSE [kind |-> "bool",
                       value |-> 16 <= second_octet.value
                                 /\ second_octet.value < 31]

\* _is_internal_ip(ip), transform.py:83-94: the try block of the 172. branch
SecondOctetCheck(ip) ==
    LET parts == SplitDot(ip)
    IN  IF Len(parts) < 2 THEN [kind |-> "raise", exc |-> "IndexError"]
        ELSE LET second_octet == PyInt(parts[2])
             IN  IF second_octet.exc # "none"
                 THEN [kind |-> "raise", exc |-> second_octet.exc]
                 ELSE [kind |-> "bool",
                       value |-> 16 <= second_octet.value
                                 /\ second_octet.value <= 31]

_is_internal_ip(ip) ==
    IF StartsWith(ip, <<"1", "9", "2", ".", "1", "6", "8", ".">>)
       \/ StartsWith(ip, <<"1", "0", ".">>)
    THEN [kind |-> "bool", value |-> TRUE]
    ELSE IF StartsWith(ip, <<"1", "7", "2", ".">>)
    THEN LET r == SecondOctetCheck(ip)
         IN  IF r.kind = "raise" /\ r.exc \in {"IndexError", "ValueError"}
             THEN [kind |-> "bool", value |-> FALSE]
             ELSE r
    ELSE [kind |-> "bool", value |-> FALSE]

\* pandas dt.dayofweek (Monday = 0), by Zeller's congruence
DayOfWeek(ts) ==
    LET m == IF ts.month < 3 THEN ts.month + 12 ELSE ts.month
        y == IF ts.month < 3 THEN ts.year - 1 ELSE ts.year
        h == (ts.day + ((13 * (m + 1)) \div 5) + (y % 100)
              + ((y % 100) \div 4) + ((y \div 100) \div 4)
              + 5 * (y \div 100)) % 7
    IN  (h + 5) % 7

WeekdayNames == <<"Monday", "Tuesday", "Wednesday", "Thursday", "Friday",
                  "Saturday", "Sunday">>

\* one row of the DataFrame of transform_logs: the parsed dict plus the
\* derived columns of transform.py:128-137
EventRow(parsed) ==
    [timestamp |-> parsed.timestamp,
     status |-> parsed.status,
     username |-> parsed.username,
     source_ip |-> parsed.source_ip,
     port |-> parsed.port,
     pid |-> parsed.pid,
     is_failed_login |-> parsed.status = <<"F", "a", "i", "l", "e", "d">>,
     hour_of_day |-> parsed.timestamp.hour,
     day_of_week |-> DayOfWeek(parsed.timestamp),
     is_internal_ip |-> _is_internal_ip(parsed.source_ip).value,
     date |-> <<parsed.timestamp.year, parsed.timestamp.month,
                parsed.timestamp.day>>,
     weekday_name |-> WeekdayNames[DayOfWeek(parsed.timestamp) + 1]]

\* mutant: a line equal to one already parsed is dropped from the result
TransformStoreDedup(st, r) ==
    IF r.ret.kind = "raise"
    THEN [st EXCEPT !.failed_samples = r.failed_samples,
                    !.raised = r.ret]
    ELSE IF r.ret.kind = "dict"
    THEN [st EXCEPT !.failed_samples = r.failed_samples,
                    !.parsed_logs =
                        IF \E i \in 1..Len(st.parsed_logs) :
                               st.parsed_logs[i] = r.ret
                        THEN @ ELSE Append(@, r.ret),
                    !.parsed_count = @ + 1]
    ELSE [st EXCEPT !.failed_samples = r.failed_samples,
                    !.failed_count = @ + 1]

\* transform.py:110-114: what the loop does with the result r of
\* parse_log_line on the transformer state st
TransformStore(st, r) ==
    IF r.ret.kind = "raise"
    THEN [st EXCEPT !.failed_samples = r.failed_samples,
                    !.raised = r.ret]
    ELSE IF r.ret.kind = "dict"
    THEN [st EXCEPT !.failed_samples = r.failed_samples,
                    !.parsed_logs = Append(@, r.ret),
                    !.parsed_count = @ + 1]
    ELSE [st EXCEPT !.failed_samples = r.failed_samples,
                    !.failed_count = @ + 1]

\* one pass of the loop of transform.py:108-114 on the transformer state st
TransformStep(st, log_line) ==
    TransformStore(st, parse_log_line(st.year, st.failed_count,
                                      st.failed_samples, log_line))

RECURSIVE TransformLoop(_, _, _)
TransformLoop(st, raw_logs, i) ==
    IF i > Len(raw_logs) \/ st.raised.kind = "raise" THEN st
    ELSE TransformLoop(TransformStep(st, raw_logs[i]), raw_logs, i + 1)

\* transform.py:116-152: the counters left on the transformer and the
\* DataFrame returned (a sequence of rows; <<>> is the empty DataFrame)
TransformResult(st) ==
    [parsed_count |-> st.parsed_count,
     failed_count |-> st.failed_count,
     failed_samples |-> st.failed_samples,
     ret |-> IF st.raised.kind = "raise" THEN st.raised
             ELSE [kind |-> "DataFrame",
                   rows |-> [i \in 1..Len(st.parsed_logs) |->
                                EventRow(st.parsed_logs[i])]]]

\* transform_logs(raw_logs)
transform_logs(yr, pcount, fcount, samples, raw_logs) ==
    TransformResult(TransformLoop([year |-> yr,
                                   parsed_count |-> pcount,
                                   failed_count |-> fcount,
                                   failed_samples |-> samples,
                                   parsed_logs |-> <<>>,
                                   raised |-> [kind |-> "None"]],
                                  raw_logs, 1))

(***************************************************************************)
(* State after construction                                                *)
(***************************************************************************)
\* LogTransformer.__init__, transform.py:34-37
InitTransformer(year_arg, now_year) ==
    /\ year = InitYear(year_arg, now_year)
    /\ parsed_count = 0
    /\ failed_count = 0
    /\ failed_samples = <<>>

\* IntrusionDetector.__init__, detect_anomalies.py:30-32
InitDetector(threshold, window) ==
    /\ brute_force_threshold = threshold
    /\ time_window_minutes = window
    /\ anomalies = <<>>

\* the defaults of IntrusionDetector.__init__, detect_anomalies.py:21-22
DefaultThreshold == 10

DefaultWindow == 60

\* IntrusionDetectionPipeline.__init__, main_pipeline.py:55, and the output
\* directory as DataLoader.__init__ finds or makes it, load.py:31-32
InitPipeline ==
    /\ metrics = <<>>
    /\ files = {}

NoCall ==
    /\ op = "init"
    /\ ret = [kind |-> "None"]

(***************************************************************************)
(* The methods of LogTransformer as actions                                *)
(***************************************************************************)
ParseLogLine(log_line) ==
    \E r \in {parse_log_line(year, failed_count, failed_samples, log_line)} :
        /\ failed_samples' = r.failed_samples
        /\ op' = "parse_log_line"
        /\ arg' = log_line
        /\ ret' = r.ret
        /\ UNCHANGED <<pipeline_vars, year, parsed_count, failed_count, detector_vars>>

TransformLogs(raw_logs) ==
    \E r \in {transform_logs(year, parsed_count, failed_count,
                             failed_samples, raw_logs)} :
        /\ parsed_count' = r.parsed_count
        /\ failed_count' = r.failed_count
        /\ failed_samples' = r.failed_samples
        /\ op' = "transform_logs"
        /\ arg' = raw_logs
        /\ ret' = r.ret
        /\ UNCHANGED <<pipeline_vars, year, detector_vars>>

IsInternalIp(ip) ==
    /\ op' = "_is_internal_ip"
    /\ arg' = ip
    /\ ret' = _is_internal_ip(ip)
    /\ UNCHANGED <<pipeline_vars, transformer_vars, detector_vars>>

(***************************************************************************)
(* SpecParse: parse_log_line applied once to each line of ParseInputs by   *)
(* a transformer constructed with each year of YearArgs.  hist keeps the   *)
(* fields the line was rendered from and the constructor's argument.       *)
(***************************************************************************)
InitParse ==
    \E f \in ParseInputs, ya \in YearArgs, now \in NowYears :
        /\ InitTransformer(ya, now)
        /\ InitDetector(DefaultThreshold, DefaultWindow)
        /\ InitPipeline
        /\ NoCall
        /\ arg = Render(f)
        /\ hist = [fields |-> f, year_arg |-> ya, now_year |-> now]

NextParse ==
    /\ op = "init"
    /\ ParseLogLine(arg)
    /\ UNCHANGED hist

SpecParse == InitParse /\ [][NextParse]_vars

(***************************************************************************)
(* What the claims say of a line, stated on the fields it was rendered     *)
(* from (never through the matcher above)                                  *)
(***************************************************************************)
AllIn(s, chars) == s # <<>> /\ \A i \in 1..Len(s) : s[i] \in chars

\* a field that cannot belong to a line of the shape
ShapeBroken(f) ==
    \/ ~AllIn(f.month, WordSet)
    \/ ~AllIn(f.pad, SpaceSet)
    \/ ~AllIn(f.host, WordSet)
    \/ f.status \notin {<<"A", "c", "c", "e", "p", "t", "e", "d">>, <<"F", "a", "i", "l", "e", "d">>}
    \/ ~AllIn(f.user, UserSet)
    \/ ~AllIn(f.ip, IpSet)
    \/ f.portkw # <<"p", "o", "r", "t">>

\* the fields are the substrings the pattern captures: nothing before the
\* month runs into it and nothing after the port number extends it
FieldsAreTheMatch(f) ==
    /\ ~ShapeBroken(f)
    /\ f.prefix = <<>> \/ f.prefix[Len(f.prefix)] \notin WordSet
    /\ f.tail = <<>> \/ f.tail[1] \notin DigitSet

CalendarLengths ==
    << <<<<"j", "a", "n">>, 31>>, <<<<"f", "e", "b">>, 28>>, <<<<"m", "a", "r">>, 31>>, <<<<"a", "p", "r">>, 30>>,
       <<<<"m", "a", "y">>, 31>>, <<<<"j", "u", "n">>, 30>>, <<<<"j", "u", "l">>, 31>>, <<<<"a", "u", "g">>, 31>>,
       <<<<"s", "e", "p">>, 30>>, <<<<"o", "c", "t">>, 31>>, <<<<"n", "o", "v">>, 30>>, <<<<"d", "e", "c">>, 31>> >>

LeapYears == {y \in 1000..9999 : y % 400 = 0 \/ (y % 4 = 0 /\ y % 100 # 0)}

TwoDigitNumber(t, lo, hi) ==
    \E n \in lo..hi : t = Dec(n) \/ (n < 10 /\ t = <<"0">> \o Dec(n))

ValidMonthDay(f, y) ==
    \E i \in 1..12 :
        /\ CalendarLengths[i][1] = ToLower(f.month)
        /\ TwoDigitNumber(f.day, 1,
               IF i = 2 /\ y \in LeapYears THEN 29 ELSE CalendarLengths[i][2])

ValidTime(f) ==
    /\ TwoDigitNumber(f.hh, 0, 23)
    /\ TwoDigitNumber(f.mm, 0, 59)
    /\ TwoDigitNumber(f.ss, 0, 59)

\* the year the caller supplied to the LogTransformer (the current year
\* when none was)
SuppliedYear ==
    IF hist.year_arg.given THEN hist.year_arg.value ELSE hist.now_year

C2_NeverRaisesRejectsInvalid ==
    op = "parse_log_line"
    => /\ ret.kind \in {"dict", "None"}
       /\ (ShapeBroken(hist.fields) \/ ~ValidMonthDay(hist.fields, SuppliedYear))
              => ret.kind = "None"

\* Feb 29 of the non-leap year 2023, in a line of the right shape, was
\* rejected with the ValueError recorded in the sample
C2_Witness ==
    /\ op = "parse_log_line"
    /\ ~ShapeBroken(hist.fields)
    /\ hist.fields.month = <<"F", "e", "b">>
    /\ hist.fields.day = <<"2", "9">>
    /\ hist.year_arg = [given |-> TRUE, value |-> 2023]
    /\ ret.kind = "None"
    /\ Len(failed_samples) = 1
    /\ failed_samples[1].error = "day is out of range for month"

(***************************************************************************)
(* SpecIp: _is_internal_ip applied once to each text of IpInputs.  A text  *)
(* is its pieces joined by dots; hist keeps the pieces.                    *)
(***************************************************************************)
RECURSIVE JoinDot(_)
JoinDot(pieces) ==
    IF Len(pieces) = 1 THEN pieces[1]
    ELSE pieces[1] \o <<".">> \o JoinDot(Tail(pieces))

IpFirst == {<<"1", "0">>, <<"1", "7", "2">>, <<"1", "9", "2">>, <<"8">>, <<"1">>, <<"1", "0", "0">>, <<>>, <<"x">>,
            <<"0", "1", "0">>}

IpSecond == {<<"0">>, <<"8">>, <<"1", "5">>, <<"1", "6">>, <<"2", "0">>, <<"3", "1">>, <<"3", "2">>, <<"1", "6", "8">>,
             <<"2", "5", "5">>, <<>>, <<"x">>, <<"0", "1", "6">>, <<"+", "1", "6">>}

IpThird == {<<"0">>, <<"5">>, <<"8">>, <<"2", "5", "5">>, <<>>, <<"x">>, <<"2", "5", "6">>}

IpFourth == {<<"1">>, <<"5">>, <<"8">>, <<"2", "5", "5">>, <<>>, <<"x">>}

IpInputs ==
    {<<a, b>> : a \in IpFirst, b \in IpSecond}
    \cup {<<a, b, c>> : a \in IpFirst, b \in IpSecond, c \in IpThird}
    \cup {<<a, b, c, d>> : a \in IpFirst, b \in IpSecond, c \in IpThird,
                           d \in IpFourth}
    \cup {<<a, b, c, d, <<"1">>>> : a \in IpFirst, b \in IpSecond,
                                  c \in IpThird, d \in IpFourth}

InitIp ==
    \E pieces \in IpInputs, ya \in {NoYear, [given |-> TRUE, value |-> 2024]},
       now \in NowYears :
        /\ InitTransformer(ya, now)
        /\ InitDetector(DefaultThreshold, DefaultWindow)
        /\ InitPipeline
        /\ NoCall
        /\ arg = JoinDot(pieces)
        /\ hist = [pieces |-> pieces, year_arg |-> ya, now_year |-> now]

NextIp ==
    /\ op = "init"
    /\ IsInternalIp(arg)
    /\ UNCHANGED hist

SpecIp == InitIp /\ [][NextIp]_vars

\* a clean dotted-decimal literal: four octets, each the decimal text of a
\* number in 0..255
IsOctet(t) == \E n \in 0..255 : t = Dec(n)

OctetValue(t) == CHOOSE n \in 0..255 : t = Dec(n)

CleanDottedDecimal(pieces) ==
    /\ Len(pieces) = 4
    /\ \A i \in 1..4 : IsOctet(pieces[i])

\* 10.0.0.0/8, 172.16.0.0/12, 192.168.0.0/16
InPrivateRanges(pieces) ==
    LET a == OctetValue(pieces[1])
        b == OctetValue(pieces[2])
    IN  \/ a = 10
        \/ a = 172 /\ b \in 16..31
        \/ a = 192 /\ b = 168

TransformerUntouched ==
    /\ year = SuppliedYear
    /\ parsed_count = 0
    /\ failed_count = 0
    /\ failed_samples = <<>>

\* C5: is_internal(ip) is a pure function of the ip text, true iff the
\* address lies in 10.0.0.0/8, 172.16.0.0/12 or 192.168.0.0/16; 10.0.0.1,
\* 172.16.0.1, 172.31.255.255 and 192.168.5.5 are internal, 172.32.0.1 and
\* 8.8.8.8 are not.
C5_InternalIffPrivateRange ==
    op = "_is_internal_ip"
    => /\ TransformerUntouched
       /\ CleanDottedDecimal(hist.pieces)
              => ret = [kind |-> "bool", value |-> InPrivateRanges(hist.pieces)]
       /\ arg \in {<<"1", "0", ".", "0", ".", "0", ".", "1">>, <<"1", "7", "2", ".", "1", "6", ".", "0", ".", "1">>, <<"1", "7", "2", ".", "3", "1", ".", "2", "5", "5", ".", "2", "5", "5">>,
                   <<"1", "9", "2", ".", "1", "6", "8", ".", "5", ".", "5">>}
              => ret = [kind |-> "bool", value |-> TRUE]
       /\ arg \in {<<"1", "7", "2", ".", "3", "2", ".", "0", ".", "1">>, <<"8", ".", "8", ".", "8", ".", "8">>}
              => ret = [kind |-> "bool", value |-> FALSE]

\* the last address of 172.16.0.0/12 was classified internal
C5_Witness ==
    /\ op = "_is_internal_ip"
    /\ arg = <<"1", "7", "2", ".", "3", "1", ".", "2", "5", "5", ".", "2", "5", "5">>
    /\ CleanDottedDecimal(hist.pieces)
    /\ ret = [kind |-> "bool", value |-> TRUE]

\* C6: for every ip text that is not a clean dotted-decimal literal,
\* is_internal returns false and never raises.
C6_UncleanIsExternal ==
    (op = "_is_internal_ip" /\ ~CleanDottedDecimal(hist.pieces))
    => ret = [kind |-> "bool", value |-> FALSE]

\* the part of C6 the code keeps: no text makes _is_internal_ip raise
C6_NeverRaises ==
    op = "_is_internal_ip" => ret.kind = "bool"

(***************************************************************************)
(* Spec: one LogTransformer receiving any sequence of parse_log_line and   *)
(* transform_logs calls on lines of SampleLines, MaxLines lines in all.    *)
(* hist counts the lines passed in and those passed to transform_logs,     *)
(* lists the rejected lines in order, and keeps the counters as they were  *)
(* before the last call.                                                   *)
(***************************************************************************)
MaxLines == 4

RECURSIVE SeqsUpTo(_, _)
SeqsUpTo(S, n) ==
    IF n = 0 THEN {<<>>}
    ELSE LET shorter == SeqsUpTo(S, n - 1)
         IN  shorter \cup {Append(s, x) : s \in shorter, x \in S}

\* whether parse_log_line returns a record for the line
Parses(log_line) ==
    parse_log_line(year, 0, <<>>, log_line).ret.kind = "dict"

RECURSIVE RejectedOf(_)
RejectedOf(raw_logs) ==
    IF raw_logs = <<>> THEN <<>>
    ELSE (IF Parses(Head(raw_logs)) THEN <<>> ELSE <<Strip(Head(raw_logs))>>)
         \o RejectedOf(Tail(raw_logs))

InitCalls ==
    /\ InitTransformer([given |-> TRUE, value |-> 2023], 2026)
    /\ InitDetector(DefaultThreshold, DefaultWindow)
    /\ InitPipeline
    /\ NoCall
    /\ arg = <<>>
    /\ hist = [lines |-> 0, batch_lines |-> 0, rejected |-> <<>>,
               before |-> [parsed_count |-> 0, failed_count |-> 0]]

Called(raw_logs, is_batch) ==
    hist' = [lines |-> hist.lines + Len(raw_logs),
             batch_lines |-> hist.batch_lines
                             + (IF is_batch THEN Len(raw_logs) ELSE 0),
             rejected |-> hist.rejected \o RejectedOf(raw_logs),
             before |-> [parsed_count |-> parsed_count,
                         failed_count |-> failed_count]]

Init == InitCalls

Next ==
    \/ \E log_line \in SampleLines :
          /\ hist.lines < MaxLines
          /\ ParseLogLine(log_line)
          /\ Called(<<log_line>>, FALSE)
    \/ \E raw_logs \in SeqsUpTo(SampleLines, MaxLines - hist.lines) :
          /\ TransformLogs(raw_logs)
          /\ Called(raw_logs, TRUE)

Spec == Init /\ [][Next]_vars

(***************************************************************************)
(* SpecSamples: the same calls, one line at a time, on the lines of        *)
(* SampleLines that fill failed_samples (and one that parses), up to       *)
(* MaxSampleLines lines.                                                   *)
(***************************************************************************)
MaxSampleLines == 6

SampleLinesRejected == {NoMatchLine, BadDateLine, GoodFailedLine}

NextSamples ==
    \/ \E log_line \in SampleLinesRejected :
          /\ hist.lines < MaxSampleLines
          /\ ParseLogLine(log_line)
          /\ Called(<<log_line>>, FALSE)
    \/ \E raw_logs \in SeqsUpTo(SampleLinesRejected, 1) :
          /\ hist.lines + Len(raw_logs) <= MaxSampleLines
          /\ TransformLogs(raw_logs)
          /\ Called(raw_logs, TRUE)

SpecSamples == InitCalls /\ [][NextSamples]_vars

SampleTexts == [i \in 1..Len(failed_samples) |-> failed_samples[i].text]

\* C3: after any sequence of parse_log_line and transform_logs calls on one
\* LogTransformer, failed_samples holds at most 5 samples, and they are the
\* first rejected lines in the order they were rejected.
C3_AtMostFiveFirstRejected ==
    /\ Len(failed_samples) <= SampleLimit
    /\ SampleTexts = SubSeq(hist.rejected, 1,
                            Min(SampleLimit, Len(hist.rejected)))

\* the input positions of the last transform_logs call that parse
ParsedPositions == {i \in 1..Len(arg) : Parses(arg[i])}

\* the k-th of them, in input order
NthParsed(k) ==
    CHOOSE i \in ParsedPositions :
        Cardinality({j \in ParsedPositions : j < i}) = k - 1

\* C4: transform_logs returns exactly one Event per input line that parses,
\* in input order and without deduplication, never a rejected line; every
\* input line adds one to exactly one of parsed_count and failed_count, so
\* their sum is the number of lines processed.
C4_OneEventPerParsedLineInOrder ==
    op = "transform_logs"
    => /\ ret.kind = "DataFrame"
       /\ Len(ret.rows) = Cardinality(ParsedPositions)
       /\ \A k \in 1..Len(ret.rows) :
             ret.rows[k] =
                 EventRow(parse_log_line(year, 0, <<>>, arg[NthParsed(k)]).ret)
       /\ parsed_count = hist.before.parsed_count + Cardinality(ParsedPositions)
       /\ failed_count = hist.before.failed_count + Len(arg)
                         - Cardinality(ParsedPositions)
       /\ parsed_count + failed_count = hist.batch_lines

\* one call received a line twice with another line and a malformed line
\* between: three events came back, the repeated one first and last
C4_Witness ==
    /\ op = "transform_logs"
    /\ arg = <<GoodFailedLine, NoMatchLine, GoodAcceptedLine, GoodFailedLine>>
    /\ ret.kind = "DataFrame"
    /\ Len(ret.rows) = 3
    /\ ret.rows[1] = ret.rows[3]
    /\ ret.rows[2].status = <<"A", "c", "c", "e", "p", "t", "e", "d">>
    /\ parsed_count = 3
    /\ failed_count = 1

(***************************************************************************)
(* IntrusionDetector (detect_anomalies.py:17-306)                          *)
(*                                                                         *)
(* A DataFrame of events is a sequence of rows with the columns the two   *)
(* detectors below read: timestamp (whole seconds from a fixed instant;   *)
(* the log format has one-second resolution), status, username,           *)
(* source_ip and is_failed_login.  Floating-point quotients are kept as   *)
(* exact fractions [num, den]; a fraction with den = 0 is the inf that    *)
(* numpy gives for a division by zero.                                    *)
(***************************************************************************)
Ratio(n, d) == [num |-> n, den |-> d]

\* a / b on floats
RatDiv(a, b) == Ratio(a.num * b.den, a.den * b.num)

\* a >= b, a <= b and a > 0 on floats (inf compares above every number)
RatGeq(a, b) == a.num * b.den >= b.num * a.den

RatLeq(a, b) == a.den # 0 /\ a.num * b.den <= b.num * a.den

RatPositive(a) == a.num > 0

\* Python's order on the characters of an ip text or a user name
CharCode(c) ==
    IF c = "." THEN 46
    ELSE IF c \in DigitSet THEN 48 + DigitVal(c)
    ELSE 96 + (CHOOSE i \in 1..26 : LowerSeq[i] = c)

\* a < b on str
StrLess(a, b) ==
    LET differ == {i \in 1..Min(Len(a), Len(b)) : a[i] # b[i]}
    IN  IF differ = {} THEN Len(a) < Len(b)
        ELSE \E i \in differ :
                /\ \A j \in differ : i <= j
                /\ CharCode(a[i]) < CharCode(b[i])

\* the keys of a groupby, which pandas sorts
SortedKeys(keys) ==
    [k \in 1..Cardinality(keys) |->
        CHOOSE x \in keys : Cardinality({y \in keys : StrLess(y, x)}) = k - 1]

SetMin(S) == CHOOSE x \in S : \A y \in S : x <= y

SetMax(S) == CHOOSE x \in S : \A y \in S : y <= x

EmptyFrame == [kind |-> "DataFrame", rows |-> <<>>]

\* df[df['is_failed_login']], detect_anomalies.py:45
FailedLogins(df) == SelectSeq(df, LAMBDA r : r.is_failed_login)

\* the rows of one group of groupby('source_ip')
GroupRows(rows, ip) == SelectSeq(rows, LAMBDA r : r.source_ip = ip)

\* x.unique(): the usernames in the order they first appear
FirstIndex(rows, u) == SetMin({i \in 1..Len(rows) : rows[i].username = u})

UniqueInOrder(rows, names) ==
    [k \in 1..Cardinality(names) |->
        CHOOSE u \in names :
            Cardinality({v \in names :
                           FirstIndex(rows, v) < FirstIndex(rows, u)}) = k - 1]

Unique(rows) ==
    UniqueInOrder(rows, {rows[i].username : i \in 1..Len(rows)})

\* detect_anomalies.py:60-62
DurationMinutes(first_attempt, last_attempt) ==
    Ratio(last_attempt - first_attempt, 60)

\* mutant: the rate is computed without the np.where guard
AttemptsPerHourUnguarded(count, duration_minutes) ==
    RatDiv(Ratio(count, 1), RatDiv(duration_minutes, Ratio(60, 1)))

\* detect_anomalies.py:65-69 (np.where computes both branches; the one for
\* a zero duration is inf and is not selected)
AttemptsPerHour(count, duration_minutes) ==
    IF RatPositive(duration_minutes)
    THEN RatDiv(Ratio(count, 1), RatDiv(duration_minutes, Ratio(60, 1)))
    ELSE Ratio(count, 1)

\* one row of `grouped`, detect_anomalies.py:51-69
GroupedRow(ip, count, first_attempt, last_attempt, targeted_users) ==
    [source_ip |-> ip,
     failed_count |-> count,
     first_attempt |-> first_attempt,
     last_attempt |-> last_attempt,
     targeted_users |-> targeted_users,
     duration_minutes |-> DurationMinutes(first_attempt, last_attempt),
     attempts_per_hour |->
         AttemptsPerHour(count,
                         DurationMinutes(first_attempt, last_attempt))]

Timestamps(rows) == {rows[i].timestamp : i \in 1..Len(rows)}

Aggregate(rows, ip) ==
    GroupedRow(ip, Len(rows), SetMin(Timestamps(rows)),
               SetMax(Timestamps(rows)), Unique(rows))

GroupedBy(failed_logins, keys) ==
    [k \in 1..Len(keys) |-> Aggregate(GroupRows(failed_logins, keys[k]), keys[k])]

Grouped(failed_logins) ==
    GroupedBy(failed_logins,
              SortedKeys({failed_logins[i].source_ip :
                            i \in 1..Len(failed_logins)}))

\* mutant: the filter without its first disjunct, the rate within the
\* window alone
IsBruteForceByRateOnly(g, threshold, window) ==
    /\ RatGeq(g.attempts_per_hour, Ratio(threshold, 2))
    /\ RatLeq(g.duration_minutes, Ratio(window, 1))

\* mutant: the count and the rate have to exceed their thresholds
IsBruteForceStrict(g, threshold, window) ==
    \/ g.failed_count > threshold
    \/ /\ ~RatLeq(g.attempts_per_hour, Ratio(threshold, 2))
       /\ RatLeq(g.duration_minutes, Ratio(window, 1))

\* the filter of detect_anomalies.py:72-76
IsBruteForce(g, threshold, window) ==
    \/ g.failed_count >= threshold
    \/ /\ RatGeq(g.attempts_per_hour, Ratio(threshold, 2))
       /\ RatLeq(g.duration_minutes, Ratio(window, 1))

\* mutant: the bins are closed on the left, [0,25), [25,50), [50,inf)
SeverityOfLeftClosed(count) ==
    IF 0 <= count /\ count < 25 THEN "MEDIUM"
    ELSE IF 25 <= count /\ count < 50 THEN "HIGH"
    ELSE IF 50 <= count THEN "CRITICAL"
    ELSE "NaN"

\* pd.cut(failed_count, bins=[0, 25, 50, inf]), detect_anomalies.py:83-87:
\* the bins are (0,25], (25,50], (50,inf); a value in none of them is NaN
SeverityOf(count) ==
    IF 0 < count /\ count <= 25 THEN "MEDIUM"
    ELSE IF 25 < count /\ count <= 50 THEN "HIGH"
    ELSE IF 50 < count THEN "CRITICAL"
    ELSE "NaN"

\* one row of the DataFrame returned, detect_anomalies.py:82-89
BruteForceRow(g) ==
    [source_ip |-> g.source_ip,
     failed_count |-> g.failed_count,
     first_attempt |-> g.first_attempt,
     last_attempt |-> g.last_attempt,
     targeted_users |-> g.targeted_users,
     duration_minutes |-> g.duration_minutes,
     attempts_per_hour |-> g.attempts_per_hour,
     anomaly_type |-> "BRUTE_FORCE",
     severity |-> SeverityOf(g.failed_count),
     num_users_targeted |-> Len(g.targeted_users)]

BruteForceFrame(brute_force) ==
    [kind |-> "DataFrame",
     rows |-> [i \in 1..Len(brute_force) |-> BruteForceRow(brute_force[i])]]

\* detect_anomalies.py:72-98 on `grouped`
BruteForceOf(grouped, threshold, window) ==
    BruteForceFrame(SelectSeq(grouped,
                              LAMBDA g : IsBruteForce(g, threshold, window)))

\* detect_brute_force(df)
detect_brute_force(threshold, window, df) ==
    IF df = <<>> THEN EmptyFrame
    ELSE IF FailedLogins(df) = <<>> THEN EmptyFrame
    ELSE BruteForceOf(Grouped(FailedLogins(df)), threshold, window)

\* mutant: rows of equal timestamp come out in the reverse of their order
\* in df
TimeRankTiesReversed(rows, i) ==
    Cardinality({j \in 1..Len(rows) :
                   \/ rows[j].timestamp < rows[i].timestamp
                   \/ rows[j].timestamp = rows[i].timestamp /\ j > i}) + 1

\* the rows of one ip in the order of sort_values(['source_ip',
\* 'timestamp']), detect_anomalies.py:209: by timestamp, rows of equal
\* timestamp in their order in df (the sort on several columns is stable)
TimeRank(rows, i) ==
    Cardinality({j \in 1..Len(rows) :
                   \/ rows[j].timestamp < rows[i].timestamp
                   \/ rows[j].timestamp = rows[i].timestamp /\ j < i}) + 1

Ranked(rows) == {<<TimeRank(rows, i), i>> : i \in 1..Len(rows)}

PickRanked(rows, ranked) ==
    [k \in 1..Len(rows) |-> rows[(CHOOSE p \in ranked : p[1] = k)[2]]]

SortByTime(rows) == PickRanked(rows, Ranked(rows))

RECURSIVE SortedGroups(_, _, _)
SortedGroups(df, keys, k) ==
    IF k > Len(keys) THEN <<>>
    ELSE SortByTime(GroupRows(df, keys[k])) \o SortedGroups(df, keys, k + 1)

\* df.sort_values(['source_ip', 'timestamp'])
SortValues(df) ==
    SortedGroups(df, SortedKeys({df[i].source_ip : i \in 1..Len(df)}), 1)

\* (~is_failed_login).groupby(source_ip).cumsum(), detect_anomalies.py:212-214
CumsumSuccess(df_sorted) ==
    [k \in 1..Len(df_sorted) |->
        Cardinality({j \in 1..k :
                       /\ df_sorted[j].source_ip = df_sorted[k].source_ip
                       /\ ~df_sorted[j].is_failed_login})]

\* the rows of df_sorted[df_sorted['cumsum_success'] == 0]
ZeroRows(df_sorted) ==
    {k \in 1..Len(df_sorted) : CumsumSuccess(df_sorted)[k] = 0}

\* pre_success, detect_anomalies.py:217: the size of each group of them
PreSuccess(df_sorted, zero) ==
    [ip \in {df_sorted[k].source_ip : k \in zero} |->
        Cardinality({k \in zero : df_sorted[k].source_ip = ip})]

\* groupby('source_ip').first() of the rows given
FirstPerIp(rows) ==
    [ip \in {rows[i].source_ip : i \in 1..Len(rows)} |->
        rows[SetMin({i \in 1..Len(rows) : rows[i].source_ip = ip})]]

\* successful_logins, detect_anomalies.py:220
SuccessfulLogins(df_sorted) ==
    FirstPerIp(SelectSeq(df_sorted, LAMBDA r : ~r.is_failed_login))

\* mutant: more than five failures are needed before the success
IsBreachAboveFive(count, has_success) == count > 5 /\ has_success

\* the test of detect_anomalies.py:226
IsBreach(count, has_success) == count >= 5 /\ has_success

\* the dict appended at detect_anomalies.py:228-235
BreachRecord(ip, count, breach_info) ==
    [source_ip |-> ip,
     username |-> breach_info.username,
     failed_attempts_before_success |-> count,
     breach_timestamp |-> breach_info.timestamp,
     anomaly_type |-> "POSSIBLE_BREACH",
     severity |-> IF count > 20 THEN "CRITICAL" ELSE "HIGH"]

\* mutant: the success is looked up without asking whether the ip has one
HasSuccessUnchecked(ip, successful_logins) == TRUE

\* `ip in successful_logins.index`, detect_anomalies.py:226
HasSuccess(ip, successful_logins) == ip \in DOMAIN successful_logins

BreachIps(pre_success, successful_logins) ==
    SelectSeq(SortedKeys(DOMAIN pre_success),
              LAMBDA ip : IsBreach(pre_success[ip],
                                   HasSuccess(ip, successful_logins)))

\* successful_logins.loc[ip], detect_anomalies.py:227: a KeyError for an
\* ip that is not in the index
Loc(successful_logins, ip) ==
    IF ip \in DOMAIN successful_logins
    THEN [kind |-> "row", row |-> successful_logins[ip]]
    ELSE [kind |-> "raise", exc |-> "KeyError"]

BreachRows(ips, pre_success, successful_logins) ==
    [i \in 1..Len(ips) |->
        BreachRecord(ips[i], pre_success[ips[i]],
                     Loc(successful_logins, ips[i]).row)]

\* the loop of detect_anomalies.py:223-237
Breaches(pre_success, successful_logins) ==
    IF \E ip \in DOMAIN pre_success :
           /\ IsBreach(pre_success[ip], HasSuccess(ip, successful_logins))
           /\ Loc(successful_logins, ip).kind = "raise"
    THEN [kind |-> "raise", exc |-> "KeyError"]
    ELSE [kind |-> "DataFrame",
          rows |-> BreachRows(BreachIps(pre_success, successful_logins),
                              pre_success, successful_logins)]

BreachesOf(df_sorted) ==
    Breaches(PreSuccess(df_sorted, ZeroRows(df_sorted)),
             SuccessfulLogins(df_sorted))

\* detect_successful_after_many_failures(df)
detect_successful_after_many_failures(df) ==
    IF df = <<>> THEN EmptyFrame ELSE BreachesOf(SortValues(df))

(***************************************************************************)
(* The two detectors as actions.  hist.grouped keeps the table `grouped`   *)
(* of detect_brute_force, of which the caller sees the flagged rows only.  *)
(***************************************************************************)
DetectBruteForce(df) ==
    /\ op' = "detect_brute_force"
    /\ arg' = df
    /\ ret' = detect_brute_force(brute_force_threshold, time_window_minutes, df)
    /\ hist' = [hist EXCEPT !.grouped = Grouped(FailedLogins(df))]
    /\ UNCHANGED <<pipeline_vars, transformer_vars, detector_vars>>

DetectSuccessfulAfterManyFailures(df) ==
    /\ op' = "detect_successful_after_many_failures"
    /\ arg' = df
    /\ ret' = detect_successful_after_many_failures(df)
    /\ UNCHANGED <<pipeline_vars, hist, transformer_vars, detector_vars>>

(***************************************************************************)
(* SpecDetect: each detector applied once to a DataFrame of events made of *)
(* up to MaxBursts bursts of events of one ip and one status, by a         *)
(* detector constructed with each pair of DetectorArgs.  The timestamps    *)
(* follow one of TimePatterns: a fixed step between consecutive rows, the  *)
(* rows in chronological or in reverse chronological order.                *)
(***************************************************************************)
MaxBursts == 3

AttackerIp == <<"4", "5", ".", "1", "4", "2", ".", "2", "1", "2", ".", "6", "1">>

NormalIp == <<"1", "0", ".", "0", ".", "0", ".", "5">>

UserCycle == <<<<"r", "o", "o", "t">>, <<"a", "d", "m", "i", "n">>>>

BurstChoices ==
    {[ip |-> AttackerIp, failed |-> TRUE, count |-> c] : c \in {1, 4, 5, 20, 25}}
    \cup {[ip |-> NormalIp, failed |-> TRUE, count |-> 4]}
    \cup {[ip |-> i, failed |-> FALSE, count |-> 1] : i \in {AttackerIp, NormalIp}}

TimePatterns ==
    {[step |-> 0, descending |-> FALSE],
     [step |-> 25, descending |-> FALSE],
     [step |-> 732, descending |-> FALSE],
     [step |-> 900, descending |-> FALSE],
     [step |-> 900, descending |-> TRUE]}

DetectorArgs ==
    {[threshold |-> DefaultThreshold, window |-> DefaultWindow],
     [threshold |-> 5, window |-> 1]}

RECURSIVE Expand(_)
Expand(bursts) ==
    IF bursts = <<>> THEN <<>>
    ELSE [i \in 1..Head(bursts).count |-> Head(bursts)] \o Expand(Tail(bursts))

\* row k of n: what transform_logs derives for an event of burst b
EventAt(b, k, n, pattern) ==
    [timestamp |-> IF pattern.descending THEN (n - k) * pattern.step
                   ELSE (k - 1) * pattern.step,
     status |-> IF b.failed THEN <<"F", "a", "i", "l", "e", "d">> ELSE <<"A", "c", "c", "e", "p", "t", "e", "d">>,
     username |-> UserCycle[(k % 2) + 1],
     source_ip |-> b.ip,
     is_failed_login |-> b.failed,
     is_internal_ip |-> _is_internal_ip(b.ip).value]

EventsOf(expanded, pattern) ==
    [k \in 1..Len(expanded) |->
        EventAt(expanded[k], k, Len(expanded), pattern)]

Events(bursts, pattern) == EventsOf(Expand(bursts), pattern)

InitDetect ==
    \E bursts \in SeqsUpTo(BurstChoices, MaxBursts),
       pattern \in TimePatterns, d \in DetectorArgs :
        /\ InitTransformer(NoYear, 2026)
        /\ InitDetector(d.threshold, d.window)
        /\ InitPipeline
        /\ NoCall
        /\ arg = Events(bursts, pattern)
        /\ hist = [bursts |-> bursts, pattern |-> pattern, grouped |-> <<>>]

NextDetect ==
    \/ op = "init" /\ DetectBruteForce(arg)
    \/ op = "init" /\ DetectSuccessfulAfterManyFailures(arg)

SpecDetect == InitDetect /\ [][NextDetect]_vars

(***************************************************************************)
(* What the detectors are to report, read off the DataFrame given (arg)    *)
(***************************************************************************)
IpsOf(df) == {df[i].source_ip : i \in 1..Len(df)}

FailedAt(ip) ==
    {i \in 1..Len(arg) : arg[i].source_ip = ip /\ arg[i].status = <<"F", "a", "i", "l", "e", "d">>}

AcceptedAt(ip) ==
    {i \in 1..Len(arg) : arg[i].source_ip = ip /\ arg[i].status = <<"A", "c", "c", "e", "p", "t", "e", "d">>}

\* last minus first failed timestamp of the ip, in seconds
FailedSeconds(ip) ==
    SetMax({arg[i].timestamp : i \in FailedAt(ip)})
    - SetMin({arg[i].timestamp : i \in FailedAt(ip)})

\* attempts_per_hour >= threshold / 2, with attempts_per_hour the count over
\* the duration in hours, or the count itself for a zero duration
RateAtLeastHalfThreshold(ip) ==
    IF FailedSeconds(ip) > 0
    THEN 2 * 3600 * Cardinality(FailedAt(ip))
             >= brute_force_threshold * FailedSeconds(ip)
    ELSE 2 * Cardinality(FailedAt(ip)) >= brute_force_threshold

ShouldReport(ip) ==
    /\ FailedAt(ip) # {}
    /\ \/ Cardinality(FailedAt(ip)) >= brute_force_threshold
       \/ /\ RateAtLeastHalfThreshold(ip)
          /\ FailedSeconds(ip) <= 60 * time_window_minutes

ReportedIps == {ret.rows[i].source_ip : i \in 1..Len(ret.rows)}

\* C7: detect_brute_force considers only Failed events, grouped by
\* source_ip, and reports an ip (once) iff its failed_count >= threshold, or
\* its attempts_per_hour >= threshold/2 and its duration_minutes <=
\* time_window_minutes, the duration being last minus first failed timestamp
\* of the ip; the result is the one for the Failed events alone.
C7_ReportsIffCountOrRateInWindow ==
    op = "detect_brute_force"
    => /\ ret.kind = "DataFrame"
       /\ ReportedIps = {ip \in IpsOf(arg) : ShouldReport(ip)}
       /\ Len(ret.rows) = Cardinality(ReportedIps)
       /\ \A i \in 1..Len(ret.rows) :
             /\ ret.rows[i].failed_count
                    = Cardinality(FailedAt(ret.rows[i].source_ip))
             /\ ret.rows[i].last_attempt - ret.rows[i].first_attempt
                    = FailedSeconds(ret.rows[i].source_ip)
       /\ ret = detect_brute_force(brute_force_threshold, time_window_minutes,
                                   SelectSeq(arg, LAMBDA r :
                                                    r.status = <<"F", "a", "i", "l", "e", "d">>))

\* with the default thresholds an ip was reported for its rate alone, another
\* ip with Failed events was not reported, and Accepted events were present
C7_Witness ==
    /\ op = "detect_brute_force"
    /\ brute_force_threshold = DefaultThreshold
    /\ \E i \in 1..Len(ret.rows) :
          ret.rows[i].failed_count < brute_force_threshold
    /\ \E ip \in IpsOf(arg) : FailedAt(ip) # {} /\ ip \notin ReportedIps
    /\ \E ip \in IpsOf(arg) : AcceptedAt(ip) # {}

RECURSIVE GCD(_, _)
GCD(a, b) == IF b = 0 THEN a ELSE GCD(b, a % b)

\* equality of two fractions, by their lowest terms
RatEq(a, b) ==
    /\ a.num \div GCD(a.num, a.den) = b.num \div GCD(b.num, b.den)
    /\ a.den \div GCD(a.num, a.den) = b.den \div GCD(b.num, b.den)

\* C8: attempts_per_hour is failed_count / (duration_minutes / 60) when
\* duration_minutes > 0 and failed_count when duration_minutes = 0; it is
\* never the outcome of a division by zero, and the call does not raise.
C8_RateGuardsZeroDuration ==
    op = "detect_brute_force"
    => /\ ret.kind = "DataFrame"
       /\ \A i \in 1..Len(hist.grouped) :
             LET g == hist.grouped[i]
                 seconds == FailedSeconds(g.source_ip)
             IN  /\ g.failed_count = Cardinality(FailedAt(g.source_ip))
                 /\ g.duration_minutes.den # 0
                 /\ RatEq(g.duration_minutes, Ratio(seconds, 60))
                 /\ g.attempts_per_hour.den # 0
                 /\ IF seconds > 0
                    THEN RatEq(g.attempts_per_hour,
                               Ratio(g.failed_count * 3600, seconds))
                    ELSE RatEq(g.attempts_per_hour, Ratio(g.failed_count, 1))
       /\ \A i \in 1..Len(ret.rows) :
             \E j \in 1..Len(hist.grouped) :
                /\ hist.grouped[j].source_ip = ret.rows[i].source_ip
                /\ hist.grouped[j].attempts_per_hour
                       = ret.rows[i].attempts_per_hour

\* several Failed events of one ip at one timestamp were reported with
\* attempts_per_hour = failed_count
C8_Witness ==
    /\ op = "detect_brute_force"
    /\ \E i \in 1..Len(ret.rows) :
          /\ ret.rows[i].failed_count >= 2
          /\ ret.rows[i].first_attempt = ret.rows[i].last_attempt
          /\ ret.rows[i].attempts_per_hour = Ratio(ret.rows[i].failed_count, 1)

SeverityByCount(n) ==
    IF n \in 1..25 THEN "MEDIUM"
    ELSE IF n \in 26..50 THEN "HIGH"
    ELSE "CRITICAL"

\* C9: every reported ip has a severity, determined by its failed_count
\* alone: MEDIUM for 1..25, HIGH for 26..50, CRITICAL above 50; with
\* threshold 10, 12 failures within 5 minutes are reported MEDIUM and 60
\* failures CRITICAL.
C9_SeverityByFailedCount ==
    op = "detect_brute_force"
    => /\ \A i \in 1..Len(ret.rows) :
             /\ ret.rows[i].failed_count >= 1
             /\ ret.rows[i].severity \in {"MEDIUM", "HIGH", "CRITICAL"}
             /\ ret.rows[i].severity = SeverityByCount(ret.rows[i].failed_count)
       /\ \A ip \in IpsOf(arg) :
             /\ brute_force_threshold = 10
             /\ \/ Cardinality(FailedAt(ip)) = 12 /\ FailedSeconds(ip) <= 300
                \/ Cardinality(FailedAt(ip)) = 60
             => \E i \in 1..Len(ret.rows) :
                   /\ ret.rows[i].source_ip = ip
                   /\ ret.rows[i].severity
                          = IF Cardinality(FailedAt(ip)) = 12
                            THEN "MEDIUM" ELSE "CRITICAL"

\* 60 failures of one ip were reported CRITICAL by the default detector
C9_Witness ==
    /\ op = "detect_brute_force"
    /\ brute_force_threshold = 10
    /\ \E i \in 1..Len(ret.rows) :
          /\ ret.rows[i].failed_count = 60
          /\ ret.rows[i].severity = "CRITICAL"

\* row i of arg comes before row j in the chronological order of the events
\* (events of one timestamp are in the order of the log)
Earlier(i, j) ==
    \/ arg[i].timestamp < arg[j].timestamp
    \/ arg[i].timestamp = arg[j].timestamp /\ i < j

FirstAccepted(ip) ==
    CHOOSE i \in AcceptedAt(ip) : \A j \in AcceptedAt(ip) \ {i} : Earlier(i, j)

FailedBeforeSuccess(ip) ==
    Cardinality({i \in FailedAt(ip) : Earlier(i, FirstAccepted(ip))})

ShouldBreach(ip) == AcceptedAt(ip) # {} /\ FailedBeforeSuccess(ip) >= 5

\* C10: detect_successful_after_many_failures emits a record for an ip (one)
\* iff the ip has an Accepted event and at least 5 Failed events before its
\* first Accepted event; the record carries that count, the username and
\* timestamp of that first Accepted event, and severity CRITICAL if the
\* count is above 20, else HIGH.  An ip with only Failed events has none.
C10_BreachIffFiveFailuresBeforeSuccess ==
    op = "detect_successful_after_many_failures"
    => /\ ret.kind = "DataFrame"
       /\ ReportedIps = {ip \in IpsOf(arg) : ShouldBreach(ip)}
       /\ Len(ret.rows) = Cardinality(ReportedIps)
       /\ \A i \in 1..Len(ret.rows) :
             LET ip == ret.rows[i].source_ip
             IN  /\ ret.rows[i].failed_attempts_before_success
                        = FailedBeforeSuccess(ip)
                 /\ ret.rows[i].username = arg[FirstAccepted(ip)].username
                 /\ ret.rows[i].breach_timestamp
                        = arg[FirstAccepted(ip)].timestamp
                 /\ ret.rows[i].severity
                        = IF FailedBeforeSuccess(ip) > 20
                          THEN "CRITICAL" ELSE "HIGH"
       /\ \A ip \in IpsOf(arg) : AcceptedAt(ip) = {} => ip \notin ReportedIps

\* six Failed events and then an Accepted one of an ip gave a record with
\* count 6 and severity HIGH
C10_Witness ==
    /\ op = "detect_successful_after_many_failures"
    /\ \E i \in 1..Len(ret.rows) :
          /\ ret.rows[i].failed_attempts_before_success = 6
          /\ ret.rows[i].severity = "HIGH"
          /\ Cardinality(FailedAt(ret.rows[i].source_ip)) = 6

(***************************************************************************)
(* IntrusionDetector.detect_unusual_usernames                              *)
(***************************************************************************)
\* detect_anomalies.py:107-110
vulnerable_accounts ==
    <<<<"r", "o", "o", "t">>, <<"a", "d", "m", "i", "n">>, <<"t", "e", "s", "t">>, <<"o", "r", "a", "c", "l", "e">>, <<"p", "o", "s", "t", "g", "r", "e", "s">>, <<"m", "y", "s", "q", "l">>,
      <<"u", "b", "u", "n", "t", "u">>, <<"u", "s", "e", "r">>, <<"g", "u", "e", "s", "t">>, <<"f", "t", "p">>>>

\* Series.isin(vulnerable_accounts)
IsIn(x, list) == \E i \in 1..Len(list) : list[i] = x

\* suspicious_users before the groupby, detect_anomalies.py:112-115
SuspiciousUsers(df) ==
    SelectSeq(df, LAMBDA r : IsIn(r.username, vulnerable_accounts)
                             /\ r.is_failed_login)

\* the order of the keys of groupby(['source_ip', 'username'])
PairLess(a, b) ==
    \/ StrLess(a[1], b[1])
    \/ a[1] = b[1] /\ StrLess(a[2], b[2])

SortedPairs(keys) ==
    [k \in 1..Cardinality(keys) |->
        CHOOSE x \in keys : Cardinality({y \in keys : PairLess(y, x)}) = k - 1]

\* agg({'timestamp': 'count'}) of one group, with the columns as renamed at
\* detect_anomalies.py:118
PairCount(rows, key) ==
    [source_ip |-> key[1],
     username |-> key[2],
     attempts |-> Cardinality({i \in 1..Len(rows) :
                                 /\ rows[i].source_ip = key[1]
                                 /\ rows[i].username = key[2]})]

PairCounts(rows, keys) == [k \in 1..Len(keys) |-> PairCount(rows, keys[k])]

\* detect_anomalies.py:112-118
GroupedPairs(rows) ==
    PairCounts(rows,
               SortedPairs({<<rows[i].source_ip, rows[i].username>> :
                              i \in 1..Len(rows)}))

\* mutant: five attempts are not yet enough
IsTargetedAboveFive(attempts) == attempts > 5

\* the filter of detect_anomalies.py:120
IsTargeted(attempts) == attempts >= 5

\* detect_anomalies.py:125-130
UnusualRow(g) ==
    [source_ip |-> g.source_ip,
     username |-> g.username,
     attempts |-> g.attempts,
     anomaly_type |-> "VULNERABLE_ACCOUNT_TARGETING",
     severity |-> IF g.attempts > 20 THEN "HIGH" ELSE "MEDIUM"]

UnusualFrame(kept) ==
    IF kept = <<>> THEN EmptyFrame
    ELSE [kind |-> "DataFrame",
          rows |-> [i \in 1..Len(kept) |-> UnusualRow(kept[i])]]

\* detect_unusual_usernames(df)
detect_unusual_usernames(df) ==
    IF df = <<>> THEN EmptyFrame
    ELSE UnusualFrame(SelectSeq(GroupedPairs(SuspiciousUsers(df)),
                                LAMBDA g : IsTargeted(g.attempts)))

(***************************************************************************)
(* IntrusionDetector.detect_geographic_anomalies                           *)
(***************************************************************************)
\* detect_anomalies.py:156-163, in the order of the dict
suspicious_ranges ==
    <<[prefix |-> <<"4", "5", ".">>, location |-> "Eastern Europe"],
      [prefix |-> <<"1", "0", "3", ".">>, location |-> "Southeast Asia"],
      [prefix |-> <<"1", "8", "5", ".">>, location |-> "Europe/Tor"],
      [prefix |-> <<"9", "1", ".">>, location |-> "Central Asia"],
      [prefix |-> <<"1", "9", "6", ".">>, location |-> "Africa"],
      [prefix |-> <<"4", "1", ".">>, location |-> "Africa"]>>

\* Series.unique() of source_ip: the ips in the order they first appear
FirstIpIndex(rows, ip) ==
    SetMin({i \in 1..Len(rows) : rows[i].source_ip = ip})

UniqueIpsInOrder(rows, ips) ==
    [k \in 1..Cardinality(ips) |->
        CHOOSE u \in ips :
            Cardinality({v \in ips :
                           FirstIpIndex(rows, v) < FirstIpIndex(rows, u)})
                = k - 1]

UniqueIps(rows) ==
    UniqueIpsInOrder(rows, {rows[i].source_ip : i \in 1..Len(rows)})

\* external_ips, detect_anomalies.py:152
ExternalIps(df) == UniqueIps(SelectSeq(df, LAMBDA r : ~r.is_internal_ip))

\* the ranges whose prefix the ip starts with, detect_anomalies.py:173-174
MatchingRanges(ip) ==
    {k \in 1..Len(suspicious_ranges) :
        StartsWith(ip, suspicious_ranges[k].prefix)}

\* mutant: ten failed attempts are already HIGH
GeoSeverityFromTen(failed) == IF failed >= 10 THEN "HIGH" ELSE "MEDIUM"

\* detect_anomalies.py:186
GeoSeverity(failed) == IF failed > 10 THEN "HIGH" ELSE "MEDIUM"

\* the dict appended at detect_anomalies.py:175-187, at the first range that
\* matches (the loop over the ranges breaks there)
GeoRecord(ip, range, attempts, failed) ==
    [source_ip |-> ip,
     location |-> range.location,
     total_attempts |-> attempts,
     failed_attempts |-> failed,
     success_attempts |-> attempts - failed,
     anomaly_type |-> "GEOGRAPHIC_ANOMALY",
     severity |-> GeoSeverity(failed)]

GeoRecordOf(df, ip) ==
    GeoRecord(ip, suspicious_ranges[SetMin(MatchingRanges(ip))],
              Len(GroupRows(df, ip)), Len(FailedLogins(GroupRows(df, ip))))

\* the loop of detect_anomalies.py:168-188 (external_ips holds each ip once,
\* so seen_ips never skips one)
GeoAnomalies(df, ips) ==
    [k \in 1..Len(ips) |-> GeoRecordOf(df, ips[k])]

\* detect_geographic_anomalies(df)
detect_geographic_anomalies(df) ==
    IF df = <<>> THEN EmptyFrame
    ELSE [kind |-> "DataFrame",
          rows |-> GeoAnomalies(df,
                       SelectSeq(ExternalIps(df),
                                 LAMBDA ip : MatchingRanges(ip) # {}))]

(***************************************************************************)
(* IntrusionDetector.generate_full_report                                  *)
(***************************************************************************)
\* the detectors in the order of the calls, detect_anomalies.py:268-271
DetectorNames ==
    <<"detect_brute_force", "detect_unusual_usernames",
      "detect_geographic_anomalies", "detect_successful_after_many_failures">>

\* self.<name>(df)
RunDetector(name, threshold, window, df) ==
    CASE name = "detect_brute_force" ->
             detect_brute_force(threshold, window, df)
      [] name = "detect_unusual_usernames" -> detect_unusual_usernames(df)
      [] name = "detect_geographic_anomalies" ->
             detect_geographic_anomalies(df)
      [] name = "detect_successful_after_many_failures" ->
             detect_successful_after_many_failures(df)

\* mutant: the breach detector sorts the caller's DataFrame in place
LeavesFrameSorted(name, df) ==
    IF name = "detect_successful_after_many_failures" /\ df # <<>>
    THEN SortValues(df) ELSE df

\* the caller's DataFrame after a detector has run on it: every detector
\* works on a selection or on a copy (detect_anomalies.py:45, 112, 152, 176,
\* 209), so the DataFrame is as it was
LeavesFrame(name, df) == df

\* the DataFrame as detector k of DetectorNames receives it
RECURSIVE FrameBefore(_, _)
FrameBefore(k, df) ==
    IF k = 1 THEN df
    ELSE LeavesFrame(DetectorNames[k - 1], FrameBefore(k - 1, df))

\* the detectors a call of generate_full_report invokes, in order
ReportCallsUnguarded(df) == DetectorNames

ReportCalls(df) == IF df = <<>> THEN <<>> ELSE DetectorNames

\* the report for an empty DataFrame, detect_anomalies.py:257-265
EmptyReport ==
    [kind |-> "dict",
     brute_force_attacks |-> EmptyFrame,
     vulnerable_account_targeting |-> EmptyFrame,
     geographic_anomalies |-> EmptyFrame,
     possible_breaches |-> EmptyFrame,
     summary |-> [total_anomalies |-> 0, critical_threats |-> 0]]

\* mutant: a breach counts as critical only if its severity is CRITICAL
CriticalCountBySeverity(brute_force, breaches) ==
    Len(SelectSeq(breaches.rows, LAMBDA r : r.severity = "CRITICAL"))
    + Len(SelectSeq(brute_force.rows, LAMBDA r : r.severity = "CRITICAL"))

\* critical_count, detect_anomalies.py:276-278
CriticalCount(brute_force, breaches) ==
    Len(breaches.rows)
    + IF brute_force.rows # <<>>
      THEN Len(SelectSeq(brute_force.rows, LAMBDA r : r.severity = "CRITICAL"))
      ELSE 0

\* detect_anomalies.py:274-293; an exception of a detector is not caught
ReportOf(brute_force, vulnerable, geo, breaches) ==
    IF brute_force.kind = "raise" THEN brute_force
    ELSE IF vulnerable.kind = "raise" THEN vulnerable
    ELSE IF geo.kind = "raise" THEN geo
    ELSE IF breaches.kind = "raise" THEN breaches
    ELSE [kind |-> "dict",
          brute_force_attacks |-> brute_force,
          vulnerable_account_targeting |-> vulnerable,
          geographic_anomalies |-> geo,
          possible_breaches |-> breaches,
          summary |->
              [total_anomalies |->
                   Len(brute_force.rows) + Len(vulnerable.rows)
                   + Len(geo.rows) + Len(breaches.rows),
               critical_threats |-> CriticalCount(brute_force, breaches),
               brute_force_count |-> Len(brute_force.rows),
               vulnerable_account_count |-> Len(vulnerable.rows),
               geographic_count |-> Len(geo.rows),
               breach_count |-> Len(breaches.rows)]]

\* generate_full_report(df)
generate_full_report(threshold, window, df) ==
    IF df = <<>> THEN EmptyReport
    ELSE ReportOf(
             RunDetector(DetectorNames[1], threshold, window, FrameBefore(1, df)),
             RunDetector(DetectorNames[2], threshold, window, FrameBefore(2, df)),
             RunDetector(DetectorNames[3], threshold, window, FrameBefore(3, df)),
             RunDetector(DetectorNames[4], threshold, window, FrameBefore(4, df)))

\* the DataFrame after generate_full_report(df)
FrameAfterReport(df) ==
    IF df = <<>> THEN df
    ELSE LeavesFrame(DetectorNames[4], FrameBefore(4, df))

\* mutant: each run appends its summary to self.anomalies
AnomaliesAfterRecorded(found, report) == Append(found, report.kind)

\* self.anomalies after generate_full_report: it is set in __init__
\* (detect_anomalies.py:32) and no method assigns or appends to it
AnomaliesAfter(found, report) == found

(***************************************************************************)
(* The report as actions.  ReportStep is one of the four calls of          *)
(* detect_anomalies.py:268-271 made on its own, in any order; ReportMerge  *)
(* is the rest of generate_full_report on the four results;                *)
(* GenerateFullReport is the whole method.  hist.outputs keeps what each   *)
(* detector returned, hist.order the order in which they ran,              *)
(* hist.previous what the previous call of generate_full_report returned.  *)
(***************************************************************************)
MaxRuns == 2

\* the detectors that have run
Done(order) == {order[k] : k \in 1..Len(order)}

ReportStep(name) ==
    /\ hist.runs = 0
    /\ name \notin Done(hist.order)
    /\ \E r \in {RunDetector(name, brute_force_threshold,
                             time_window_minutes, arg)} :
          /\ ret' = r
          /\ hist' = [hist EXCEPT !.order = Append(@, name),
                                  !.outputs[name] = r]
    /\ op' = name
    /\ arg' = LeavesFrame(name, arg)
    /\ UNCHANGED <<pipeline_vars, transformer_vars, detector_vars>>

ReportMerge ==
    /\ op # "merge"
    /\ Len(hist.order) = 4
    /\ op' = "merge"
    /\ ret' = IF arg = <<>> THEN EmptyReport
              ELSE ReportOf(hist.outputs[DetectorNames[1]],
                            hist.outputs[DetectorNames[2]],
                            hist.outputs[DetectorNames[3]],
                            hist.outputs[DetectorNames[4]])
    /\ UNCHANGED <<pipeline_vars, arg, hist, transformer_vars, detector_vars>>

GenerateFullReport(df) ==
    /\ hist.order = <<>>
    /\ hist.runs < MaxRuns
    /\ \E r \in {generate_full_report(brute_force_threshold,
                                      time_window_minutes, df)} :
          /\ ret' = r
          /\ anomalies' = AnomaliesAfter(anomalies, r)
    /\ op' = "generate_full_report"
    /\ arg' = FrameAfterReport(df)
    /\ hist' = [hist EXCEPT !.runs = @ + 1,
                            !.previous = ret,
                            !.calls = ReportCalls(df)]
    /\ UNCHANGED <<pipeline_vars, transformer_vars, brute_force_threshold,
                   time_window_minutes>>

(***************************************************************************)
(* SpecReport: the detector the pipeline constructs, on a DataFrame of up  *)
(* to MaxReportBursts bursts of events of one ip, one user and one status, *)
(* one event an hour.  The ips: two in a suspicious range, an external one *)
(* in none, an internal one.                                               *)
(***************************************************************************)
MaxReportBursts == 2

KenyaIp == <<"4", "1", ".", "6", "0", ".", "2", "3", "2", ".", "1", "9", "1">>

ExternalIp == <<"1", "4", "5", ".", "1", "4", "2", ".", "2", "1", "2", ".", "6", "1">>

RootUser == <<"r", "o", "o", "t">>

StaffUser == <<"j", "o", "h", "n", "d", "o", "e">>

ReportBursts ==
    {[ip |-> AttackerIp, failed |-> TRUE, count |-> c, user |-> RootUser] :
        c \in {4, 5, 6, 15, 51}}
    \cup {[ip |-> i, failed |-> TRUE, count |-> 5, user |-> RootUser] :
            i \in {ExternalIp, NormalIp}}
    \cup {[ip |-> KenyaIp, failed |-> TRUE, count |-> 5, user |-> StaffUser]}
    \cup {[ip |-> AttackerIp, failed |-> FALSE, count |-> 1, user |-> RootUser]}

HourlyPattern == [step |-> 3600, descending |-> FALSE]

\* row k: what transform_logs derives for an event of burst b
ReportEventAt(b, k) ==
    [EventAt(b, k, 0, HourlyPattern) EXCEPT !.username = b.user]

ReportEventsOf(expanded) ==
    [k \in 1..Len(expanded) |-> ReportEventAt(expanded[k], k)]

ReportEvents(bursts) == ReportEventsOf(Expand(bursts))

InitReport ==
    \E bursts \in SeqsUpTo(ReportBursts, MaxReportBursts) :
        /\ InitTransformer(NoYear, 2026)
        /\ InitDetector(DefaultThreshold, DefaultWindow)
        /\ InitPipeline
        /\ NoCall
        /\ arg = ReportEvents(bursts)
        /\ hist = [bursts |-> bursts,
                   df |-> ReportEvents(bursts),
                   order |-> <<>>,
                   outputs |-> [n \in {DetectorNames[k] : k \in 1..4} |->
                                   [kind |-> "None"]],
                   runs |-> 0,
                   previous |-> [kind |-> "None"],
                   calls |-> <<>>]

NextReport ==
    \/ \E k \in 1..4 : ReportStep(DetectorNames[k])
    \/ ReportMerge
    \/ GenerateFullReport(arg)

SpecReport == InitReport /\ [][NextReport]_vars

(***************************************************************************)
(* What the geographic detector is to report, read off the DataFrame given *)
(***************************************************************************)
\* the fixed list of prefixes and their labels, in order
RangeLabels ==
    <<<<<<"4", "5", ".">>, "Eastern Europe">>, <<<<"1", "0", "3", ".">>, "Southeast Asia">>,
      <<<<"1", "8", "5", ".">>, "Europe/Tor">>, <<<<"9", "1", ".">>, "Central Asia">>,
      <<<<"1", "9", "6", ".">>, "Africa">>, <<<<"4", "1", ".">>, "Africa">>>>

InRange(ip) == \E k \in 1..Len(RangeLabels) : StartsWith(ip, RangeLabels[k][1])

FirstLabel(ip) ==
    RangeLabels[CHOOSE k \in 1..Len(RangeLabels) :
                    /\ StartsWith(ip, RangeLabels[k][1])
                    /\ \A j \in 1..(k - 1) :
                           ~StartsWith(ip, RangeLabels[j][1])][2]

IsExternal(ip) ==
    \E i \in 1..Len(arg) : arg[i].source_ip = ip /\ ~arg[i].is_internal_ip

EventsAt(ip) == {i \in 1..Len(arg) : arg[i].source_ip = ip}

RowsFor(ip) == {i \in 1..Len(ret.rows) : ret.rows[i].source_ip = ip}

\* C11: detect_geographic_anomalies returns exactly one record for each
\* external ip of the DataFrame that starts with a listed prefix and none
\* for any other ip; the record carries the label of the first matching
\* prefix, the number of the ip's events, the number of its Failed events,
\* their difference, and severity HIGH if more than 10 failed, else MEDIUM.
C11_OneGeoRecordPerListedExternalIp ==
    op = "detect_geographic_anomalies" =>
        /\ ret.kind = "DataFrame"
        /\ \A i \in 1..Len(ret.rows) : ret.rows[i].source_ip \in IpsOf(arg)
        /\ \A ip \in IpsOf(arg) :
              IF IsExternal(ip) /\ InRange(ip)
              THEN /\ Cardinality(RowsFor(ip)) = 1
                   /\ \A i \in RowsFor(ip) :
                         /\ ret.rows[i].location = FirstLabel(ip)
                         /\ ret.rows[i].total_attempts
                                = Cardinality(EventsAt(ip))
                         /\ ret.rows[i].failed_attempts
                                = Cardinality(FailedAt(ip))
                         /\ ret.rows[i].success_attempts
                                = Cardinality(EventsAt(ip))
                                  - Cardinality(FailedAt(ip))
                         /\ ret.rows[i].anomaly_type = "GEOGRAPHIC_ANOMALY"
                         /\ ret.rows[i].severity
                                = IF Cardinality(FailedAt(ip)) > 10
                                  THEN "HIGH" ELSE "MEDIUM"
              ELSE RowsFor(ip) = {}

\* one ip of a listed range is reported; an external ip of no range is not
C11_Witness ==
    /\ op = "detect_geographic_anomalies"
    /\ \E i \in 1..Len(ret.rows) :
          /\ ret.rows[i].failed_attempts = 5
          /\ ret.rows[i].success_attempts = 0
          /\ ret.rows[i].severity = "MEDIUM"
    /\ \E ip \in IpsOf(arg) : ~InRange(ip) /\ IsExternal(ip)

(***************************************************************************)
(* What the vulnerable-account detector is to report                       *)
(***************************************************************************)
VulnerableNames ==
    {<<"r", "o", "o", "t">>, <<"a", "d", "m", "i", "n">>, <<"t", "e", "s", "t">>, <<"o", "r", "a", "c", "l", "e">>, <<"p", "o", "s", "t", "g", "r", "e", "s">>, <<"m", "y", "s", "q", "l">>,
     <<"u", "b", "u", "n", "t", "u">>, <<"u", "s", "e", "r">>, <<"g", "u", "e", "s", "t">>, <<"f", "t", "p">>}

PairsOf(df) == {<<df[i].source_ip, df[i].username>> : i \in 1..Len(df)}

FailedOfPair(pair) ==
    {i \in 1..Len(arg) :
        /\ arg[i].source_ip = pair[1]
        /\ arg[i].username = pair[2]
        /\ arg[i].status = <<"F", "a", "i", "l", "e", "d">>}

RowsForPair(pair) ==
    {i \in 1..Len(ret.rows) :
        /\ ret.rows[i].source_ip = pair[1]
        /\ ret.rows[i].username = pair[2]}

\* C12: detect_unusual_usernames returns one record for each (source_ip,
\* username) pair whose username is one of the ten vulnerable account names
\* and that has at least 5 Failed events, and none for any other pair; its
\* attempts is that number of Failed events and its severity is HIGH if
\* attempts > 20, else MEDIUM.
C12_OneRecordPerTargetedPair ==
    op = "detect_unusual_usernames" =>
        /\ ret.kind = "DataFrame"
        /\ \A i \in 1..Len(ret.rows) :
              <<ret.rows[i].source_ip, ret.rows[i].username>> \in PairsOf(arg)
        /\ \A pair \in PairsOf(arg) :
              IF pair[2] \in VulnerableNames
                 /\ Cardinality(FailedOfPair(pair)) >= 5
              THEN /\ Cardinality(RowsForPair(pair)) = 1
                   /\ \A i \in RowsForPair(pair) :
                         /\ ret.rows[i].attempts
                                = Cardinality(FailedOfPair(pair))
                         /\ ret.rows[i].anomaly_type
                                = "VULNERABLE_ACCOUNT_TARGETING"
                         /\ ret.rows[i].severity
                                = IF Cardinality(FailedOfPair(pair)) > 20
                                  THEN "HIGH" ELSE "MEDIUM"
              ELSE RowsForPair(pair) = {}

\* root is reported for its 5 Failed events; the 5 Failed events of a user
\* that is not in the list are not
C12_Witness ==
    /\ op = "detect_unusual_usernames"
    /\ Len(ret.rows) = 1
    /\ ret.rows[1].attempts = 5
    /\ ret.rows[1].severity = "MEDIUM"
    /\ \E pair \in PairsOf(arg) :
          pair[2] \notin VulnerableNames /\ Cardinality(FailedOfPair(pair)) = 5

(***************************************************************************)
(* What generate_full_report is to return                                  *)
(***************************************************************************)
Collections(report) ==
    <<report.brute_force_attacks, report.vulnerable_account_targeting,
      report.geographic_anomalies, report.possible_breaches>>

CriticalRows(frame) ==
    {i \in 1..Len(frame.rows) : frame.rows[i].severity = "CRITICAL"}

\* C13: for a non-empty DataFrame the summary of generate_full_report has
\* total_anomalies = the sum of the sizes of the four collections,
\* critical_threats = the number of breach records (of any severity) + the
\* number of brute-force records of severity CRITICAL, and each per-type
\* count = the size of its collection.
C13_SummaryCountsTheCollections ==
    (op = "generate_full_report" /\ hist.df # <<>>) =>
        /\ ret.kind = "dict"
        /\ ret.summary.total_anomalies
               = Len(ret.brute_force_attacks.rows)
                 + Len(ret.vulnerable_account_targeting.rows)
                 + Len(ret.geographic_anomalies.rows)
                 + Len(ret.possible_breaches.rows)
        /\ ret.summary.critical_threats
               = Len(ret.possible_breaches.rows)
                 + Cardinality(CriticalRows(ret.brute_force_attacks))
        /\ ret.summary.brute_force_count = Len(ret.brute_force_attacks.rows)
        /\ ret.summary.vulnerable_account_count
               = Len(ret.vulnerable_account_targeting.rows)
        /\ ret.summary.geographic_count = Len(ret.geographic_anomalies.rows)
        /\ ret.summary.breach_count = Len(ret.possible_breaches.rows)
        /\ \A k \in 1..4 :
              Collections(ret)[k]
                  = RunDetector(DetectorNames[k], brute_force_threshold,
                                time_window_minutes, hist.df)

\* a report with a brute-force record that is not CRITICAL and a breach of
\* severity HIGH: one critical threat, four anomalies
C13_Witness ==
    /\ op = "generate_full_report"
    /\ Len(ret.possible_breaches.rows) = 1
    /\ ret.possible_breaches.rows[1].severity = "HIGH"
    /\ Len(ret.brute_force_attacks.rows) = 1
    /\ ret.brute_force_attacks.rows[1].severity = "MEDIUM"
    /\ ret.summary.critical_threats = 1
    /\ ret.summary.total_anomalies = 4

\* C14: for an empty DataFrame generate_full_report returns four empty
\* collections, total_anomalies = 0 and critical_threats = 0, and invokes
\* none of the four detectors.
C14_EmptyReportWithoutDetectors ==
    (op = "generate_full_report" /\ hist.df = <<>>) =>
        /\ ret.kind = "dict"
        /\ \A k \in 1..4 : Collections(ret)[k] = EmptyFrame
        /\ ret.summary.total_anomalies = 0
        /\ ret.summary.critical_threats = 0
        /\ hist.calls = <<>>

\* generate_full_report has returned for the empty DataFrame
C14_Witness ==
    /\ op = "generate_full_report"
    /\ hist.df = <<>>
    /\ arg = <<>>
    /\ hist.runs = 1

DetectorCalled == \E k \in 1..4 : op = DetectorNames[k]

NoFailedEvents == \A i \in 1..Len(arg) : arg[i].status # <<"F", "a", "i", "l", "e", "d">>

NoAcceptedEvents == \A i \in 1..Len(arg) : arg[i].status # <<"A", "c", "c", "e", "p", "t", "e", "d">>

\* no group of the DataFrame satisfies the rule of the detector called
NothingToReport ==
    CASE op = "detect_brute_force" ->
             \A ip \in IpsOf(arg) : FailedAt(ip) = {} \/ ~ShouldReport(ip)
      [] op = "detect_unusual_usernames" ->
             \A pair \in PairsOf(arg) :
                 \/ pair[2] \notin VulnerableNames
                 \/ Cardinality(FailedOfPair(pair)) < 5
      [] op = "detect_geographic_anomalies" ->
             \A ip \in IpsOf(arg) : ~(IsExternal(ip) /\ InRange(ip))
      [] op = "detect_successful_after_many_failures" ->
             \A ip \in IpsOf(arg) : ~ShouldBreach(ip)
      [] OTHER -> FALSE

\* C19: no detector raises, whatever the DataFrame; for an empty DataFrame
\* and for one in which no group satisfies the detector's rule (so, for the
\* three detectors that count Failed events, one without Failed events, and
\* for the breach detector one without Accepted events) the detector
\* returns an empty DataFrame.
C19_DetectorsReturnEmptyNotError ==
    DetectorCalled =>
        /\ ret.kind = "DataFrame"
        /\ arg = <<>> => ret = EmptyFrame
        /\ NothingToReport => ret.rows = <<>>
        /\ (NoFailedEvents /\ op # "detect_geographic_anomalies")
               => ret.rows = <<>>
        /\ (NoAcceptedEvents /\ op = "detect_successful_after_many_failures")
               => ret.rows = <<>>

\* the breach detector on an ip with 20 Failed events and no Accepted one
C19_Witness ==
    /\ op = "detect_successful_after_many_failures"
    /\ NoAcceptedEvents
    /\ Cardinality(FailedAt(AttackerIp)) >= 20
    /\ ret = EmptyFrame

(***************************************************************************)
(* Events of one ip that share a timestamp, in the breach detector         *)
(***************************************************************************)
\* the ip has a Failed and an Accepted event of the same second
Tied(ip) ==
    \E i \in FailedAt(ip), j \in AcceptedAt(ip) :
        arg[i].timestamp = arg[j].timestamp

\* the Accepted event of the earliest second, the first in df among those
FirstSuccessByInput(ip) ==
    CHOOSE j \in AcceptedAt(ip) :
        \A k \in AcceptedAt(ip) :
            \/ arg[j].timestamp < arg[k].timestamp
            \/ arg[j].timestamp = arg[k].timestamp /\ j <= k

\* the Failed events of an earlier second, and those of the same second
\* that come before it in df
FailuresBeforeByInput(ip) ==
    {i \in FailedAt(ip) :
        \/ arg[i].timestamp < arg[FirstSuccessByInput(ip)].timestamp
        \/ /\ arg[i].timestamp = arg[FirstSuccessByInput(ip)].timestamp
           /\ i < FirstSuccessByInput(ip)}

\* C20: in detect_successful_after_many_failures events of one ip with the
\* same timestamp stay in their order in df; for an ip with a Failed and an
\* Accepted event of the same second, the first success is the first
\* Accepted event in df among those of the earliest second, and the
\* failures counted are those of an earlier second and those of that second
\* that precede it in df.
C20_TiesKeepInputOrder ==
    op = "detect_successful_after_many_failures" =>
        \A ip \in IpsOf(arg) :
            Tied(ip) =>
                /\ Cardinality(RowsFor(ip))
                       = IF Cardinality(FailuresBeforeByInput(ip)) >= 5
                         THEN 1 ELSE 0
                /\ \A r \in RowsFor(ip) :
                      /\ ret.rows[r].failed_attempts_before_success
                             = Cardinality(FailuresBeforeByInput(ip))
                      /\ ret.rows[r].username
                             = arg[FirstSuccessByInput(ip)].username
                      /\ ret.rows[r].breach_timestamp
                             = arg[FirstSuccessByInput(ip)].timestamp

\* five Failed events, an Accepted one and five more Failed ones of one ip,
\* all of one second: the five before the Accepted event in df are counted
C20_Witness ==
    /\ op = "detect_successful_after_many_failures"
    /\ hist.pattern.step = 0
    /\ Cardinality(FailedAt(AttackerIp)) = 10
    /\ Cardinality(AcceptedAt(AttackerIp)) = 1
    /\ \E r \in RowsFor(AttackerIp) :
          ret.rows[r].failed_attempts_before_success = 5

(***************************************************************************)
(* LogExtractor.extract_logs and DataLoader (extract.py, load.py)          *)
(*                                                                         *)
(* The environment of a run: the log file (whether it exists, and its      *)
(* lines as readlines() returns them), the output file whose write fails   *)
(* and with which exception (file "none": no write fails), and whether the *)
(* parquet engine works, is missing (ImportError) or fails on writing.     *)
(* File paths are modelled by the file names.                              *)
(***************************************************************************)
Raise(exc, msg) == [kind |-> "raise", exc |-> exc, msg |-> msg]

NotComputed == [kind |-> "None"]

\* extract.py:50-63
extract_logs(log_file) ==
    IF ~log_file.exists
    THEN Raise("FileNotFoundError", "Log file not found")
    ELSE [kind |-> "list", lines |-> log_file.lines]

\* load_to_csv(df, filename), load.py:49-64, with the files `present`
\* before the call: the files after it and the path returned
load_to_csv(present, env, df, filename) ==
    IF df.kind = "None" \/ df.rows = <<>>
    THEN [files |-> present,
          ret |-> Raise("ValueError", "Cannot save empty DataFrame to CSV")]
    ELSE IF env.fault.file = filename
    THEN [files |-> present, ret |-> Raise(env.fault.exc, "write failed")]
    ELSE [files |-> present \cup {filename},
          ret |-> [kind |-> "str", value |-> filename]]

\* filename.replace('.parquet', '.csv'), load.py:100
CsvNameOf(filename) ==
    IF filename = "processed_logs.parquet" THEN "processed_logs.csv"
    ELSE filename

\* load_to_parquet(df, filename), load.py:73-100
load_to_parquet(present, env, df, filename) ==
    IF df.kind = "None" \/ df.rows = <<>>
    THEN [files |-> present,
          ret |-> Raise("ValueError",
                        "Cannot save empty DataFrame to Parquet")]
    ELSE IF env.parquet = "ImportError"
    THEN load_to_csv(present, env, df, CsvNameOf(filename))
    ELSE IF env.parquet # "ok"
    THEN [files |-> present, ret |-> Raise(env.parquet, "write failed")]
    ELSE [files |-> present \cup {filename},
          ret |-> [kind |-> "str", value |-> filename]]

\* create_summary_stats(df), load.py:108-133: a DataFrame of one row (of
\* which the counts are modelled, the rates and the date range are not)
create_summary_stats(df) ==
    [kind |-> "DataFrame",
     rows |-> <<[total_logs |-> Len(df.rows),
                 unique_ips |->
                     Cardinality({df.rows[i].source_ip :
                                    i \in 1..Len(df.rows)}),
                 unique_users |->
                     Cardinality({df.rows[i].username :
                                    i \in 1..Len(df.rows)}),
                 failed_logins |->
                     Cardinality({i \in 1..Len(df.rows) :
                                    df.rows[i].is_failed_login})]>>]

\* load.py:147-152, in the order of the dict
anomaly_types ==
    <<[key |-> "brute_force_attacks", filename |-> "anomaly_brute_force.csv"],
      [key |-> "vulnerable_account_targeting",
       filename |-> "anomaly_vulnerable_accounts.csv"],
      [key |-> "geographic_anomalies", filename |-> "anomaly_geographic.csv"],
      [key |-> "possible_breaches", filename |-> "anomaly_breaches.csv"]>>

\* one pass of the loop of load.py:154-157 on [files, saved, ret]
SaveAnomaly(st, written, key) ==
    IF written.ret.kind = "raise"
    THEN [st EXCEPT !.files = written.files, !.ret = written.ret]
    ELSE [st EXCEPT !.files = written.files,
                    !.saved = Append(@, [key |-> key,
                                         filepath |-> written.ret.value])]

RECURSIVE SaveAnomalies(_, _, _, _)
SaveAnomalies(st, env, anomaly_dict, k) ==
    IF k > Len(anomaly_types) \/ st.ret.kind = "raise" THEN st
    ELSE IF anomaly_dict[anomaly_types[k].key].rows = <<>>
    THEN SaveAnomalies(st, env, anomaly_dict, k + 1)
    ELSE SaveAnomalies(
             SaveAnomaly(st,
                         load_to_csv(st.files, env,
                                     anomaly_dict[anomaly_types[k].key],
                                     anomaly_types[k].filename),
                         anomaly_types[k].key),
             env, anomaly_dict, k + 1)

\* load_anomalies(anomaly_dict), load.py:135-159: the files after the call,
\* the saved paths in the order they were saved, and the exception if a
\* write raised
load_anomalies(present, env, anomaly_dict) ==
    SaveAnomalies([files |-> present, saved |-> <<>>,
                   ret |-> [kind |-> "dict"]],
                  env, anomaly_dict, 1)

(***************************************************************************)
(* IntrusionDetectionPipeline.run (main_pipeline.py:57-223)                *)
(*                                                                         *)
(* The steps of run in their order, each an operator on what the steps     *)
(* before it left.  The result is the dict returned, self.metrics (of      *)
(* which the timings are not modelled), the files in the output            *)
(* directory, the transformer's counters, and the two locals processed_df  *)
(* and anomaly_report as they were when run returned (NotComputed if the   *)
(* run did not get that far).                                              *)
(***************************************************************************)
\* the seconds of a timestamp within its year: what the differences and
\* the order of pandas Timestamps of one year depend on
RECURSIVE DaysBefore(_, _)
DaysBefore(y, m) ==
    IF m = 1 THEN 0 ELSE DaysBefore(y, m - 1) + DaysInMonth(y, m - 1)

Seconds(ts) ==
    ((DaysBefore(ts.year, ts.month) + ts.day - 1) * 24 + ts.hour) * 3600
    + ts.minute * 60 + ts.second

\* the rows of processed_df as the detectors compute with them
DetectorRows(rows) ==
    [i \in 1..Len(rows) |->
        [rows[i] EXCEPT !.timestamp = Seconds(rows[i].timestamp)]]

\* the except clauses of main_pipeline.py:204-223.  ValueError's handler
\* names the type itself; the last handler takes it from the exception.
Handle(e) ==
    [kind |-> "dict",
     success |-> FALSE,
     error |-> e.msg,
     error_type |-> IF e.exc = "FileNotFoundError" THEN "FileNotFoundError"
                    ELSE IF e.exc \in {"ValueError", "UnicodeDecodeError"}
                    THEN "ValueError"
                    ELSE e.exc]

RunFailed(t, m, present, e, processed_df, anomaly_report) ==
    [ret |-> Handle(e),
     metrics |-> m,
     files |-> present,
     parsed_count |-> t.parsed_count,
     failed_count |-> t.failed_count,
     failed_samples |-> t.failed_samples,
     processed_df |-> processed_df,
     anomaly_report |-> anomaly_report]

\* main_pipeline.py:146-202
RunSaved(t, m, csv_path, summary_path, anomaly_report, saved) ==
    IF saved.ret.kind = "raise"
    THEN RunFailed(t, m, saved.files, saved.ret, t.ret, anomaly_report)
    ELSE [ret |-> [kind |-> "dict",
                   success |-> TRUE,
                   processed_data |-> t.ret,
                   anomaly_report |-> anomaly_report,
                   metrics |->
                       m @@ [anomalies_found |->
                                 anomaly_report.summary.total_anomalies,
                             critical_threats |->
                                 anomaly_report.summary.critical_threats],
                   output_files |-> [csv |-> csv_path,
                                     summary |-> summary_path,
                                     anomalies |-> saved.saved]],
          metrics |->
              m @@ [anomalies_found |->
                        anomaly_report.summary.total_anomalies,
                    critical_threats |->
                        anomaly_report.summary.critical_threats],
          files |-> saved.files,
          parsed_count |-> t.parsed_count,
          failed_count |-> t.failed_count,
          failed_samples |-> t.failed_samples,
          processed_df |-> t.ret,
          anomaly_report |-> anomaly_report]

\* main_pipeline.py:141-144
RunDetected(t, m, env, csv_path, summary_path, present, anomaly_report) ==
    IF anomaly_report.kind = "raise"
    THEN RunFailed(t, m, present, anomaly_report, t.ret, NotComputed)
    ELSE RunSaved(t, m, csv_path, summary_path, anomaly_report,
                  load_anomalies(present, env, anomaly_report))

\* mutant: an exception of load_to_parquet ends the run
RunParquetUncaught(t, m, det, env, csv_path, summary_path, parquet) ==
    IF parquet.ret.kind = "raise"
    THEN RunFailed(t, m, parquet.files, parquet.ret, t.ret, NotComputed)
    ELSE RunDetected(t,
                     m @@ [parquet_saved |-> TRUE],
                     env, csv_path, summary_path, parquet.files,
                     generate_full_report(det.threshold, det.window,
                                          DetectorRows(t.ret.rows)))

\* main_pipeline.py:125-141: an exception of load_to_parquet is caught
RunParquet(t, m, det, env, csv_path, summary_path, parquet) ==
    RunDetected(t,
                m @@ [parquet_saved |-> parquet.ret.kind # "raise"],
                env, csv_path, summary_path, parquet.files,
                generate_full_report(det.threshold, det.window,
                                     DetectorRows(t.ret.rows)))

\* main_pipeline.py:122-126
RunSummary(t, m, det, env, csv_path, summary) ==
    IF summary.ret.kind = "raise"
    THEN RunFailed(t, m, summary.files, summary.ret, t.ret, NotComputed)
    ELSE RunParquet(t, m, det, env, csv_path, summary.ret.value,
                    load_to_parquet(summary.files, env, t.ret,
                                    "processed_logs.parquet"))

\* main_pipeline.py:118-122
RunCsv(t, m, det, env, csv) ==
    IF csv.ret.kind = "raise"
    THEN RunFailed(t, m, csv.files, csv.ret, t.ret, NotComputed)
    ELSE RunSummary(t, m, det, env, csv.ret.value,
                    load_to_csv(csv.files, env, create_summary_stats(t.ret),
                                "summary_stats.csv"))

\* mutant: run goes on to the load step with an empty DataFrame
NoUsableDataIgnored(processed_df) == FALSE

\* `processed_df.empty`, main_pipeline.py:108
NoUsableData(processed_df) == processed_df.rows = <<>>

\* main_pipeline.py:108-118
RunParsed(t, m, det, present, env) ==
    IF NoUsableData(t.ret)
    THEN RunFailed(t, m, present,
                   Raise("ValueError",
                         "No logs were successfully parsed. Check log format and transformer regex."),
                   t.ret, NotComputed)
    ELSE RunCsv(t, m, det, env,
                load_to_csv(present, env, t.ret, "processed_logs.csv"))

\* main_pipeline.py:96-103
RunTransformed(t, m, det, present, env, raw_logs) ==
    IF t.ret.kind = "raise"
    THEN RunFailed(t, m, present, t.ret, NotComputed, NotComputed)
    ELSE RunParsed(t,
                   m @@ [parsed_count |-> Len(t.ret.rows),
                         parse_success_rate |->
                             IF raw_logs # <<>>
                             THEN Ratio(Len(t.ret.rows) * 100, Len(raw_logs))
                             ELSE Ratio(0, 1)],
                   det, present, env)

\* main_pipeline.py:84-96
RunExtracted(tr, m, det, present, env, raw) ==
    IF raw.kind = "raise"
    THEN RunFailed(tr, m, present, raw, NotComputed, NotComputed)
    ELSE RunTransformed(transform_logs(tr.year, tr.parsed_count,
                                       tr.failed_count, tr.failed_samples,
                                       raw.lines),
                        [raw_log_count |-> Len(raw.lines)] @@ m,
                        det, present, env, raw.lines)

\* run(log_filename), by a pipeline whose transformer is tr, whose detector
\* is det and whose metrics are m
run(tr, m, det, present, env, log_file) ==
    RunExtracted(tr, m, det, present, env, extract_logs(log_file))

Run(log_file, env) ==
    /\ op = "init"
    /\ \E r \in {run([year |-> year, parsed_count |-> parsed_count,
                      failed_count |-> failed_count,
                      failed_samples |-> failed_samples],
                     metrics,
                     [threshold |-> brute_force_threshold,
                      window |-> time_window_minutes],
                     files, env, log_file)} :
          /\ ret' = r.ret
          /\ metrics' = r.metrics
          /\ files' = r.files
          /\ parsed_count' = r.parsed_count
          /\ failed_count' = r.failed_count
          /\ failed_samples' = r.failed_samples
          /\ hist' = [log_file |-> log_file,
                      env |-> env,
                      processed_df |-> r.processed_df,
                      anomaly_report |-> r.anomaly_report]
    /\ op' = "run"
    /\ arg' = log_file
    /\ UNCHANGED <<year, detector_vars>>

(***************************************************************************)
(* SpecRun: one run of a pipeline as IntrusionDetectionPipeline.__init__   *)
(* constructs it, on each log file of up to MaxRunBursts bursts of equal   *)
(* lines (or on a missing file), in each environment.                      *)
(***************************************************************************)
MaxRunBursts == 2

LineBursts ==
    {[line |-> GoodFailedLine, count |-> 5],
     [line |-> GoodFailedLine, count |-> 1],
     [line |-> GoodAcceptedLine, count |-> 1],
     [line |-> NoMatchLine, count |-> 1],
     [line |-> BadDateLine, count |-> 1]}

RECURSIVE LinesOf(_)
LinesOf(bursts) ==
    IF bursts = <<>> THEN <<>>
    ELSE [i \in 1..Head(bursts).count |-> Head(bursts).line]
         \o LinesOf(Tail(bursts))

LogFiles ==
    {[exists |-> FALSE, lines |-> <<>>]}
    \cup {[exists |-> TRUE, lines |-> LinesOf(bursts)] :
            bursts \in SeqsUpTo(LineBursts, MaxRunBursts)}

OutputFiles ==
    {"processed_logs.csv", "summary_stats.csv"}
    \cup {anomaly_types[k].filename : k \in 1..Len(anomaly_types)}

WriteFaults ==
    {[file |-> "none", exc |-> "none"]}
    \cup {[file |-> f, exc |-> e] :
            f \in OutputFiles,
            e \in {"PermissionError", "FileNotFoundError"}}

Environments ==
    {[fault |-> f, parquet |-> p] :
        f \in WriteFaults, p \in {"ok", "ImportError", "OSError"}}

InitRun ==
    /\ InitTransformer(NoYear, 2026)
    /\ InitDetector(DefaultThreshold, DefaultWindow)
    /\ InitPipeline
    /\ NoCall
    /\ arg = <<>>
    /\ hist = [log_file |-> [exists |-> FALSE, lines |-> <<>>],
               env |-> [fault |-> [file |-> "none", exc |-> "none"],
                        parquet |-> "ok"],
               processed_df |-> NotComputed,
               anomaly_report |-> NotComputed]

NextRun == \E log_file \in LogFiles, env \in Environments : Run(log_file, env)

SpecRun == InitRun /\ [][NextRun]_vars

(***************************************************************************)
(* What the caller of run is left with                                     *)
(***************************************************************************)
\* a write to an output file raised and ended the run
SinkWriteFailed ==
    /\ op = "run"
    /\ ~ret.success
    /\ ret.error = "write failed"

\* C17: if a sink write fails during a run (the event table, the summary
\* record or an anomaly table), what was computed in memory by then, the
\* parsed DataFrame and, if detection had finished, the anomaly report,
\* is available to the caller of run.
C17_ComputedResultsRemainAvailable ==
    SinkWriteFailed =>
        /\ hist.processed_df.kind = "DataFrame"
        /\ "processed_data" \in DOMAIN ret
        /\ ret.processed_data = hist.processed_df
        /\ hist.anomaly_report.kind = "dict" =>
              /\ "anomaly_report" \in DOMAIN ret
              /\ ret.anomaly_report = hist.anomaly_report

\* the log file exists and none of its lines parses (it may have no line)
NoLineParses ==
    /\ hist.log_file.exists
    /\ \A i \in 1..Len(hist.log_file.lines) : ~Parses(hist.log_file.lines[i])

NoUsableDataOutcome ==
    [kind |-> "dict",
     success |-> FALSE,
     error |-> "No logs were successfully parsed. Check log format and transformer regex.",
     error_type |-> "ValueError"]

\* C18: a run on zero lines, or on lines of which none parses, returns the
\* outcome success = false, error_type ValueError with the no-logs-parsed
\* message; every run that fails in another way (a missing file, a failed
\* write in a later step) returns an outcome of another error_type.
C18_NoUsableDataIsItsOwnOutcome ==
    op = "run" =>
        /\ NoLineParses => ret = NoUsableDataOutcome
        /\ (~NoLineParses /\ ~ret.success) =>
              /\ ret.error_type # "ValueError"
              /\ ret # NoUsableDataOutcome
        /\ ret = NoUsableDataOutcome => files = {}

\* a run on two lines of which none parses
C18_Witness ==
    /\ op = "run"
    /\ Len(hist.log_file.lines) = 2
    /\ NoLineParses
    /\ failed_count = 2
    /\ ret = NoUsableDataOutcome

(***************************************************************************)
(* The steps of a run, read from what each step leaves behind: the entry   *)
(* of self.metrics it sets when it is over (main_pipeline.py:88, 100, 127  *)
(* or 130, 148), the files it writes, and the report generate_full_report  *)
(* returned.                                                               *)
(***************************************************************************)
Extracted == "raw_log_count" \in DOMAIN metrics

Transformed == "parsed_count" \in DOMAIN metrics

EventTableWritten == "processed_logs.csv" \in files

SummaryWritten == "summary_stats.csv" \in files

Loaded == "parquet_saved" \in DOMAIN metrics

DetectionStarted == hist.anomaly_report.kind = "dict"

Detected == "anomalies_found" \in DOMAIN metrics

AnomalyFiles == {anomaly_types[k].filename : k \in 1..Len(anomaly_types)}

\* the transform returned a DataFrame without rows
ZeroEvents ==
    /\ hist.processed_df.kind = "DataFrame"
    /\ hist.processed_df.rows = <<>>

\* the transform returned rows, and the write of `filename` raises
WriteOfFails(filename) ==
    /\ hist.processed_df.kind = "DataFrame"
    /\ hist.processed_df.rows # <<>>
    /\ hist.env.fault.file = filename

\* nothing fails in the run but the write of the parquet file
OnlyParquetFails ==
    /\ hist.log_file.exists
    /\ hist.processed_df.kind = "DataFrame"
    /\ hist.processed_df.rows # <<>>
    /\ hist.env.fault.file = "none"
    /\ hist.env.parquet = "OSError"

\* C21: run performs Extract, Transform, Load, Detect in that order and
\* never propagates an exception: every run returns a dict whose success
\* flag is true only if all four steps completed and is otherwise false
\* with an error_type; detection is not started when the transform produced
\* zero events or when the write of the event table or of the summary
\* failed; a failure of the parquet write alone does not stop the run.
C21_StepsInOrderAndNothingPropagates ==
    op = "run" =>
        /\ ret.kind = "dict"
        /\ ret.success \in BOOLEAN
        /\ ret.success => (Extracted /\ Transformed /\ EventTableWritten
                           /\ SummaryWritten /\ Loaded /\ DetectionStarted
                           /\ Detected)
        /\ ~ret.success => "error_type" \in DOMAIN ret
        /\ Transformed => Extracted
        /\ EventTableWritten => Transformed
        /\ SummaryWritten => EventTableWritten
        /\ Loaded => SummaryWritten
        /\ DetectionStarted => Loaded
        /\ Detected => DetectionStarted
        /\ (files \cap AnomalyFiles # {}) => DetectionStarted
        /\ (ZeroEvents \/ WriteOfFails("processed_logs.csv")
            \/ WriteOfFails("summary_stats.csv")) =>
              /\ ~ret.success
              /\ ~DetectionStarted
              /\ ~Detected
              /\ files \cap AnomalyFiles = {}
        /\ OnlyParquetFails =>
              /\ ret.success
              /\ metrics.parquet_saved = FALSE
              /\ DetectionStarted
              /\ "processed_logs.parquet" \notin files

\* a run in which only the parquet write failed: it went on to detection,
\* saved an anomaly table and returned success
C21_Witness ==
    /\ op = "run"
    /\ OnlyParquetFails
    /\ ret.success
    /\ metrics.parquet_saved = FALSE
    /\ files \cap AnomalyFiles # {}
    /\ Detected

(***************************************************************************)
(* Breaches and brute-force records of one report                          *)
(***************************************************************************)
\* a report is returned: by generate_full_report, or merged from the four
\* detectors called one at a time
ReportReturned ==
    /\ op \in {"generate_full_report", "merge"}
    /\ ret.kind = "dict"

\* the brute-force records of the report for `ip` with at least `count`
\* failed attempts
BruteForceRowsFor(ip, count) ==
    {j \in 1..Len(ret.brute_force_attacks.rows) :
        /\ ret.brute_force_attacks.rows[j].source_ip = ip
        /\ ret.brute_force_attacks.rows[j].failed_count >= count}

Accompanied(breach) ==
    BruteForceRowsFor(breach.source_ip,
                      breach.failed_attempts_before_success) # {}

\* C22: in every report, each source_ip with a breach record whose
\* failed_attempts_before_success >= brute_force_threshold also has a
\* brute-force record whose failed_count is at least that number.  (A breach
\* record with a count from 5 to threshold - 1 is not required to have one:
\* C22_BreachBelowThresholdAlone is such a report.)
C22_BreachAtThresholdHasBruteForce ==
    ReportReturned =>
        \A i \in 1..Len(ret.possible_breaches.rows) :
            ret.possible_breaches.rows[i].failed_attempts_before_success
                    >= brute_force_threshold
                => Accompanied(ret.possible_breaches.rows[i])

\* a report with a breach after 15 failures, which the brute-force record
\* of the same ip counts too
C22_Witness ==
    /\ op = "generate_full_report"
    /\ brute_force_threshold = 10
    /\ Len(ret.possible_breaches.rows) = 1
    /\ ret.possible_breaches.rows[1].failed_attempts_before_success = 15
    /\ Accompanied(ret.possible_breaches.rows[1])
    /\ Len(ret.brute_force_attacks.rows) = 1

\* a report with a breach after 5 failures, fewer than the threshold, and
\* no brute-force record at all: the failures are an hour apart
C22_BreachBelowThresholdAlone ==
    /\ op = "generate_full_report"
    /\ Len(ret.possible_breaches.rows) = 1
    /\ ret.possible_breaches.rows[1].failed_attempts_before_success = 5
    /\ ret.possible_breaches.rows[1].failed_attempts_before_success
           < brute_force_threshold
    /\ ret.brute_force_attacks.rows = <<>>

====
